---- MODULE Spec2Model ----
(***************************************************************************)
(* CyberForensics-Arena: task progression (client taskManager.js,          *)
(* console.js, taskHud.js) against the server-authoritative scoring and    *)
(* badge engine (server routes/tasks.js over the SQLite schema).           *)
(*                                                                         *)
(* One authenticated user is modelled: every row of task_completions,      *)
(* user_badges, badge_points_awarded and user_stats below is that user's   *)
(* row, so "per (user, X)" in the schema reads "per X" here.               *)
(*                                                                         *)
(* The submit handler is an async function: between two awaited database   *)
(* calls another request of the same user may run.  Each awaited call is   *)
(* therefore one action, and the handler's position is req[r].pc.          *)
(*                                                                         *)
(* SpecServer is the scoring and badge engine under concurrent requests    *)
(* of any caller of the HTTP API.  SpecClient is the client's task pointer *)
(* with its handlers suspended at their requests; there the server runs    *)
(* each request through the whole handler in one step (SubmitHandled).     *)
(***************************************************************************)
EXTENDS Integers, Sequences, FiniteSets, TLC

\* ------------------------------------------------------------------ bounds
\* number of HTTP submissions of the user that may be in flight together
MaxInFlight == 2
\* hint fetches counted per scenario before the counter saturates
MaxHints == 1
\* hint fetches per scenario that the hint route, taken call by call,
\* still tracks
MaxTracked == 2

\* --------------------------------------------------------------- constants
SPEED_RUNNER_THRESHOLD_MS == 300000
ScenarioBadgeDefaultPoints == 20
SkillBadgeDefaultPoints == 30
\* the timeMs a caller of the HTTP API sends with each task: two and a
\* half minutes, so that the two tasks of a scenario take the 5 minutes
FastMs == 150000

None == "none"
\* time_ms of a submission without timeMs (`timeMs || null`)
NoTime == -1

Reqs == 1..MaxInFlight

\* ------------------------------------------------- scenario definitions
\* scenarios.json is static configuration outside the repository's code;
\* two small scenarios with one task of each check policy stand for it.
\* Version "v2" is what the scenario editor saves: same tasks, other
\* expected answers.
Scenarios == {"S1", "S2"}
Tasks == {"t1", "t2", "t3"}
Versions == {"v1", "v2"}

ScenarioTasks(s) == IF s = "S1" THEN <<"t1", "t2">> ELSE <<"t3">>
ScenarioBadge(s) == IF s = "S1" THEN "File Expert" ELSE None
ScenarioOf(t) == IF t = "t3" THEN "S2" ELSE "S1"
TaskSet(s) == {ScenarioTasks(s)[i] : i \in DOMAIN ScenarioTasks(s)}

SpeedRunner == "Speed Runner"
HintFree == "Hint-Free Expert"
Badges == {"File Expert", SpeedRunner, HintFree}

\* strings that are compared character-wise are tuples of characters
\* a path is the tuple of its "/" and its segment names
EvidencePath == <<"/", "home", "/", "user", "/", "evidence">>
PathM == <<"/", "mnt">>

\* the flag that t3 asks for
FlagValue == "FLAG{a}"
\* what the hint of t2 costs in the two versions
HintPrice == 10
HintPriceRaised == 30

\* t1 has a free hint, t2 a paid one whose cost the editor raises, t3 a
\* free hint that the editor adds
TaskDef(v, t) ==
  CASE t = "t1" -> [checkType |-> None, interactionTarget |-> None,
                    checkCommand |-> "cd",
                    checkArgs |-> IF v = "v1" THEN <<EvidencePath>>
                                  ELSE <<PathM>>,
                    points |-> 10, hint |-> TRUE, hintCost |-> 0,
                    expectedValue |-> None]
    [] t = "t2" -> [checkType |-> "interaction",
                    interactionTarget |-> IF v = "v1" THEN "pc" ELSE "hd",
                    checkCommand |-> None, checkArgs |-> <<>>,
                    points |-> 20, hint |-> TRUE,
                    hintCost |-> IF v = "v1" THEN HintPrice
                                 ELSE HintPriceRaised,
                    expectedValue |-> None]
    [] OTHER    -> [checkType |-> "flag", interactionTarget |-> None,
                    checkCommand |-> None, checkArgs |-> <<>>,
                    points |-> 5, hint |-> (v = "v2"), hintCost |-> 0,
                    expectedValue |-> FlagValue]

\* The custom commands a scenario declares, by name with their output: the
\* editor's third version gives S1 a netscan, a sha256sum and a volatility
\* of its own, and S2 a strings.
CustomCommands(v, s) ==
  IF v = "v3" /\ s = "S1"
  THEN [n \in {"netscan", "sha256sum", "volatility"} |->
          IF n = "netscan" THEN "scan"
          ELSE IF n = "sha256sum" THEN "hash" ELSE "vol"]
  ELSE IF v = "v3" /\ s = "S2" THEN [n \in {"strings"} |-> "txt"]
  ELSE [n \in {} |-> ""]

\* ------------------------------------------------------------- variables
VARIABLES
  \* server: scenariosData (which saved version is loaded)
  scenariosData,
  \* server database
  scenarioRows, taskRows, badgeRows,
  task_completions, user_badges, badge_points_awarded, user_stats,
  \* submissions in flight: client handler + HTTP request + server handler
  req,
  \* client taskManager.js state
  scenarioData, currentScenario, taskIndex, isScenarioActive,
  completedTaskIds, processingTaskIds, completedScenarioIds,
  sessionCompleted, refreshPending,
  \* history: SCENARIO_COMPLETED events emitted in this session
  emitted,
  \* history: the tasks whose accepted answer has moved the pointer since
  \* the scenario was initialised
  advanced,
  \* hint requests in flight: client handler + HTTP request + server handler
  hintReq,
  \* client: PointsBadge points, hudState.hintShown, hudState.unlockedHints
  points, hintShown, unlockedHints,
  \* console: the command sent to /api/console/execute, and the working
  \* directory (the server's user_vfs_state.cwd, which TerminalState.cwd
  \* follows with every answer)
  con, cwd,
  \* server: user_vfs_state (the tree and the working directory of the
  \* user's scenario) and the user_devices table
  vfs, user_devices,
  \* device requests and console requests in flight, taken call by call
  dev, exec,
  \* client: VFSManager.root, and the command line the terminal is running
  localRoot, term,
  \* client: CommandRegistry and CustomCommandsRegistry of the console
  registry,
  \* server: the leaderboard cache, the leaderboard requests in flight and
  \* the clock (Date.now, in milliseconds)
  cache, lb, now,
  \* client: sessionState, the requests of the session in flight and the
  \* session cookie as the server holds it
  session

dbVars == <<scenarioRows, taskRows, badgeRows, task_completions,
            user_badges, badge_points_awarded, user_stats>>
hudVars == <<hintReq, points, hintShown, unlockedHints>>
auxVars == <<cache, lb, now, session>>
fsVars == <<vfs, user_devices, dev, exec, localRoot, term, auxVars>>
consoleVars == <<con, cwd, fsVars, registry>>
clientVars == <<scenarioData, currentScenario, taskIndex, isScenarioActive,
                completedTaskIds, processingTaskIds, completedScenarioIds,
                sessionCompleted, refreshPending, emitted, advanced, hudVars,
                consoleVars>>
vars == <<scenariosData, scenarioRows, taskRows, badgeRows, task_completions,
          user_badges, badge_points_awarded, user_stats, req,
          scenarioData, currentScenario, taskIndex, isScenarioActive,
          completedTaskIds, processingTaskIds, completedScenarioIds,
          sessionCompleted, refreshPending, emitted, advanced,
          hintReq, points, hintShown, unlockedHints, con, cwd,
          vfs, user_devices, dev, exec, localRoot, term, registry,
          cache, lb, now, session>>

\* ------------------------------------------------------ pure functions
\* arg.replace(/\/$/, ''): drops one trailing slash
StripSlash(w) ==
  IF Len(w) > 0 /\ w[Len(w)] = "/" THEN SubSeq(w, 1, Len(w) - 1) ELSE w

\* An answer string is kept in parsed form: whether it starts with
\* 'interaction:', the text after that prefix (or the first word), and the
\* remaining words as parseCommandArgs splits them.
Answer(isInteraction, head, args) ==
  [interaction |-> isInteraction, head |-> head, args |-> args]

validateAnswer(task, answer) ==
  IF task.checkType = "interaction" /\ task.interactionTarget # None
  THEN answer.interaction /\ answer.head = task.interactionTarget
  ELSE IF task.checkCommand # None
  THEN /\ ~answer.interaction
       /\ answer.head = task.checkCommand
       /\ IF Len(task.checkArgs) > 0
          THEN /\ Len(answer.args) = Len(task.checkArgs)
               /\ \A i \in DOMAIN answer.args :
                    StripSlash(answer.args[i]) = StripSlash(task.checkArgs[i])
          ELSE Len(answer.args) = 0
  ELSE FALSE

RECURSIVE SumField(_, _)
SumField(rows, f) ==
  IF rows = <<>> THEN 0 ELSE Head(rows)[f] + SumField(Tail(rows), f)

\* SELECT COALESCE(SUM(score_awarded), 0) FROM task_completions
TaskScoreTotal(rows) == SumField(rows, "score_awarded")
\* SELECT COALESCE(SUM(points_awarded), 0) FROM badge_points_awarded
BadgePointsTotal(rows) == SumField(rows, "points_awarded")

\* SELECT id, score_awarded FROM task_completions WHERE user_id, task_id
ExistingCompletion(rows, t) == \E i \in DOMAIN rows : rows[i].task = t
\* score_awarded of the user's completion row of task t
ExistingScore(rows, t) ==
  rows[CHOOSE i \in DOMAIN rows : rows[i].task = t].score_awarded

CompletedTasks(rows) == {rows[i].task : i \in DOMAIN rows}
\* SELECT COUNT(DISTINCT tc.task_id) ... WHERE t.scenario_id = ?
CompletedCount(rows, s) == Cardinality(CompletedTasks(rows) \cap TaskSet(s))

BadgeCodes(rows) == {rows[i].badge : i \in DOMAIN rows}
HasBadge(rows, b) == \E i \in DOMAIN rows : rows[i] = b

\* badge_points of a badges row: initializeBadges sets 30 for the skill
\* badges; a scenario badge created on demand gets 20
BadgeRowPoints(b) ==
  IF b \in {SpeedRunner, HintFree} THEN SkillBadgeDefaultPoints
  ELSE ScenarioBadgeDefaultPoints

\* SELECT time_ms ... WHERE tc.time_ms IS NOT NULL, for one scenario
TimedCompletions(rows, s) ==
  SelectSeq(rows, LAMBDA c : c.task \in TaskSet(s) /\ c.time_ms # NoTime)

\* user_stats: whether the user's row exists, and scenario_hints_used
NoStats == [row |-> FALSE, hints |-> [s \in Scenarios |-> 0]]

\* ---------------------------------------------------------- request record
\* the handler's positions inside the badge evaluation of lines 182-208
EvaluationPcs ==
  {"count", "sbGet", "sbIns", "sbHas", "sbInsUB", "sbInsBP", "srTimes",
   "srGet", "srHas", "srInsUB", "srInsBP", "hfStats", "hfInsStats", "hfGet",
   "hfHas", "hfInsUB", "hfInsBP"}

\* Besides the handler's own locals a request carries two histories that
\* no action reads.  `seen`: every total the database has held for the
\* user since the handler began the pair of SUM reads its newTotalScore is
\* made of.  `evalFailed`: the 500 was thrown inside the badge evaluation.
IdleReq ==
  [pc |-> "idle", kind |-> None, task |-> None, answer |-> Answer(FALSE, None, <<>>),
   time |-> NoTime, ver |-> None, status |-> None, correct |-> FALSE,
   already |-> FALSE, score |-> 0, taskTotal |-> 0, badgeTotal |-> 0,
   total |-> 0, pts |-> 0, unlocked |-> {}, seen |-> {},
   evalFailed |-> FALSE]

SetReq(r, rec) == req' = [req EXCEPT ![r] = rec]
\* request r continues as rec after a write that makes the user's total
\* `total`; the handlers that are summing have now seen that total too
Wrote(r, rec, total) ==
  req' = [x \in Reqs |->
            [(IF x = r THEN rec ELSE req[x]) EXCEPT
               !.seen = IF req[x].seen = {} THEN {} ELSE @ \cup {total}]]
Goto(r, pc) == req' = [req EXCEPT ![r].pc = pc]

\* res.status(500).json({ error: 'Task submission failed' })
Failed(q) ==
  [IdleReq EXCEPT !.pc = "resp", !.kind = q.kind, !.task = q.task,
                  !.status = "err", !.evalFailed = q.pc \in EvaluationPcs]
\* res.json({ success: true, correct, scoreAwarded, newTotalScore, ... })
Responded(q, total, pts) ==
  [IdleReq EXCEPT !.pc = "resp", !.kind = q.kind, !.task = q.task,
                  !.status = "ok", !.correct = q.correct,
                  !.already = q.already, !.score = q.score,
                  !.total = total, !.pts = pts, !.unlocked = q.unlocked,
                  !.seen = q.seen]

\* the user's total as the database holds it
DbTotal == TaskScoreTotal(task_completions)
           + BadgePointsTotal(badge_points_awarded)

\* ------------------------------------------------- schema constraints
\* a task_completions table declared without its UNIQUE constraint
CompletionConflictNoUnique(rows, t) == FALSE
\* task_completions: UNIQUE(user_id, task_id) -- the INSERT throws
CompletionConflict(rows, t) == \E i \in DOMAIN rows : rows[i].task = t
\* a user_badges table declared without its primary key
UserBadgeConflictNoKey(rows, b) == FALSE
\* user_badges: PRIMARY KEY (user_id, badge_id) -- the INSERT throws
UserBadgeConflict(rows, b) == \E i \in DOMAIN rows : rows[i] = b
\* badge_points_awarded has no uniqueness constraint of its own

\* ------------------------------ POST /api/tasks/:taskId/submit (server)
At(r, pc) == req[r].pc = pc

\* lines 57-91: body checks, task lookup in scenariosData, SELECT scenario
SrvBegin(r) ==
  /\ At(r, "net")
  /\ SetReq(r, [req[r] EXCEPT
        !.ver = scenariosData,
        !.pc = IF ScenarioOf(req[r].task) \in scenarioRows
               THEN "getTask" ELSE "insScen"])
  /\ UNCHANGED <<scenariosData, dbVars, clientVars>>

\* lines 93-97: INSERT INTO scenarios (code UNIQUE), then re-SELECT
SrvInsertScenario(r) ==
  /\ At(r, "insScen")
  /\ LET s == ScenarioOf(req[r].task) IN
     IF s \in scenarioRows
     THEN SetReq(r, Failed(req[r])) /\ UNCHANGED scenarioRows
     ELSE Goto(r, "getTask") /\ scenarioRows' = scenarioRows \cup {s}
  /\ UNCHANGED <<scenariosData, taskRows, badgeRows, task_completions,
                 user_badges, badge_points_awarded, user_stats, clientVars>>

\* line 100: SELECT id FROM tasks
SrvGetTask(r) ==
  /\ At(r, "getTask")
  /\ Goto(r, IF req[r].task \in taskRows THEN "getExisting" ELSE "insTask")
  /\ UNCHANGED <<scenariosData, dbVars, clientVars>>

\* lines 103-115: INSERT INTO tasks (UNIQUE(scenario_id, code)), re-SELECT
SrvInsertTask(r) ==
  /\ At(r, "insTask")
  /\ IF req[r].task \in taskRows
     THEN SetReq(r, Failed(req[r])) /\ UNCHANGED taskRows
     ELSE Goto(r, "getExisting") /\ taskRows' = taskRows \cup {req[r].task}
  /\ UNCHANGED <<scenariosData, scenarioRows, badgeRows, task_completions,
                 user_badges, badge_points_awarded, user_stats, clientVars>>

\* lines 119-151: SELECT existing completion; if none, validateAnswer and
\* the score (both computed without awaiting)
SrvGetExisting(r) ==
  /\ At(r, "getExisting")
  /\ LET q == req[r]
         existing == ExistingCompletion(task_completions, q.task)
         ok == validateAnswer(TaskDef(q.ver, q.task), q.answer)
     IN IF existing
        THEN SetReq(r, [q EXCEPT !.pc = "acSum1", !.already = TRUE,
                                 !.correct = TRUE,
                                 !.score = ExistingScore(task_completions, q.task)])
        ELSE SetReq(r, [q EXCEPT !.pc = IF ok THEN "insCompl" ELSE "sum1",
                                 !.correct = ok,
                                 !.score = IF ok THEN TaskDef(q.ver, q.task).points
                                           ELSE 0])
  /\ UNCHANGED <<scenariosData, dbVars, clientVars>>

\* lines 126-129: already completed, SUM(score_awarded)
SrvAlreadySum1(r) ==
  /\ At(r, "acSum1")
  /\ SetReq(r, [req[r] EXCEPT !.pc = "acSum2", !.seen = {DbTotal},
                              !.taskTotal = TaskScoreTotal(task_completions)])
  /\ UNCHANGED <<scenariosData, dbVars, clientVars>>

\* lines 130-144: already completed, SUM(points_awarded) and the response
SrvAlreadySum2(r) ==
  /\ At(r, "acSum2")
  /\ SetReq(r, Responded(req[r],
        req[r].taskTotal + BadgePointsTotal(badge_points_awarded), 0))
  /\ UNCHANGED <<scenariosData, dbVars, clientVars>>

\* lines 154-159: INSERT INTO task_completions
SrvInsertCompletion(r) ==
  /\ At(r, "insCompl")
  /\ LET q == req[r] IN
     IF CompletionConflict(task_completions, q.task)
     THEN SetReq(r, Failed(q)) /\ UNCHANGED task_completions
     ELSE /\ Wrote(r, [q EXCEPT !.pc = "sum1"], DbTotal + q.score)
          /\ task_completions' = Append(task_completions,
               [task |-> q.task, score_awarded |-> q.score,
                time_ms |-> q.time])
  /\ UNCHANGED <<scenariosData, scenarioRows, taskRows, badgeRows,
                 user_badges, badge_points_awarded, user_stats, clientVars>>

\* lines 162-166: SUM(score_awarded)
SrvSum1(r) ==
  /\ At(r, "sum1")
  /\ SetReq(r, [req[r] EXCEPT !.pc = "sum2", !.seen = {DbTotal},
                              !.taskTotal = TaskScoreTotal(task_completions)])
  /\ UNCHANGED <<scenariosData, dbVars, clientVars>>

\* lines 169-182, 232-239: SUM(points_awarded), newTotalScore; a wrong
\* answer is answered here
SrvSum2(r) ==
  /\ At(r, "sum2")
  /\ LET q == req[r]
         newTotalScore == q.taskTotal + BadgePointsTotal(badge_points_awarded)
     IN IF q.correct
        THEN SetReq(r, [q EXCEPT !.pc = "count", !.total = newTotalScore])
        ELSE SetReq(r, Responded(q, newTotalScore, 0))
  /\ UNCHANGED <<scenariosData, dbVars, clientVars>>

\* the comparison of SrvCount with `>= 1` in place of `=== allTasks.length`
SrvCountAnyCompletion(r) ==
  /\ At(r, "count")
  /\ LET s == ScenarioOf(req[r].task) IN
     Goto(r, IF CompletedCount(task_completions, s) >= 1
             THEN (IF ScenarioBadge(s) = None THEN "srTimes" ELSE "sbGet")
             ELSE "final")
  /\ UNCHANGED <<scenariosData, dbVars, clientVars>>

\* lines 184-194: COUNT(DISTINCT task_id) of the scenario against
\* allTasks.length; awardScenarioBadge starts with `if (!scenario.badge)`
\* and its first SELECT is the next step
SrvCount(r) ==
  /\ At(r, "count")
  /\ LET s == ScenarioOf(req[r].task) IN
     Goto(r, IF CompletedCount(task_completions, s) = Len(ScenarioTasks(s))
             THEN (IF ScenarioBadge(s) = None THEN "srTimes" ELSE "sbGet")
             ELSE "final")
  /\ UNCHANGED <<scenariosData, dbVars, clientVars>>

\* the four awaited steps the three award functions share:
\* SELECT has-badge, INSERT user_badges, INSERT badge_points_awarded
BadgeHas(r, b, pcIns, pcNext) ==
  /\ Goto(r, IF HasBadge(user_badges, b) THEN pcNext ELSE pcIns)
  /\ UNCHANGED <<scenariosData, dbVars, clientVars>>

BadgeInsertUserBadge(r, b, pcPts) ==
  /\ IF UserBadgeConflict(user_badges, b)
     THEN SetReq(r, Failed(req[r])) /\ UNCHANGED user_badges
     ELSE Goto(r, pcPts) /\ user_badges' = Append(user_badges, b)
  /\ UNCHANGED <<scenariosData, scenarioRows, taskRows, badgeRows,
                 task_completions, badge_points_awarded, user_stats,
                 clientVars>>

BadgeInsertPoints(r, b, pcNext) ==
  /\ badge_points_awarded' = Append(badge_points_awarded,
        [badge |-> b, points_awarded |-> BadgeRowPoints(b)])
  /\ Wrote(r, [req[r] EXCEPT !.pc = pcNext,
                             !.unlocked = @ \cup {b},
                             !.pts = @ + BadgeRowPoints(b)],
           DbTotal + BadgeRowPoints(b))
  /\ UNCHANGED <<scenariosData, scenarioRows, taskRows, badgeRows,
                 task_completions, user_badges, user_stats, clientVars>>

\* awardScenarioBadge, line 261: SELECT the badges row
SbGet(r) ==
  /\ At(r, "sbGet")
  /\ Goto(r, IF ScenarioBadge(ScenarioOf(req[r].task)) \in badgeRows
             THEN "sbHas" ELSE "sbIns")
  /\ UNCHANGED <<scenariosData, dbVars, clientVars>>

\* awardScenarioBadge, lines 263-267: INSERT INTO badges (code UNIQUE)
SbInsertBadge(r) ==
  /\ At(r, "sbIns")
  /\ LET b == ScenarioBadge(ScenarioOf(req[r].task)) IN
     IF b \in badgeRows
     THEN SetReq(r, Failed(req[r])) /\ UNCHANGED badgeRows
     ELSE Goto(r, "sbHas") /\ badgeRows' = badgeRows \cup {b}
  /\ UNCHANGED <<scenariosData, scenarioRows, taskRows, task_completions,
                 user_badges, badge_points_awarded, user_stats, clientVars>>

SbHas(r) ==
  /\ At(r, "sbHas")
  /\ BadgeHas(r, ScenarioBadge(ScenarioOf(req[r].task)), "sbInsUB", "srTimes")

SbInsertUserBadge(r) ==
  /\ At(r, "sbInsUB")
  /\ BadgeInsertUserBadge(r, ScenarioBadge(ScenarioOf(req[r].task)), "sbInsBP")

SbInsertPoints(r) ==
  /\ At(r, "sbInsBP")
  /\ BadgeInsertPoints(r, ScenarioBadge(ScenarioOf(req[r].task)), "srTimes")

\* checkSpeedRunnerBadge with `>=` in place of `>` at its threshold
SrTimesStrict(r) ==
  /\ At(r, "srTimes")
  /\ LET completions == TimedCompletions(task_completions,
                                         ScenarioOf(req[r].task))
         totalTime == SumField(completions, "time_ms")
     IN Goto(r, IF Len(completions) = 0 THEN "hfStats"
                ELSE IF totalTime >= SPEED_RUNNER_THRESHOLD_MS THEN "hfStats"
                ELSE "srGet")
  /\ UNCHANGED <<scenariosData, dbVars, clientVars>>

\* checkSpeedRunnerBadge, lines 336-359: the timed completions of the
\* scenario, their sum against the threshold, then SELECT the badges row
SrTimes(r) ==
  /\ At(r, "srTimes")
  /\ LET completions == TimedCompletions(task_completions,
                                         ScenarioOf(req[r].task))
         totalTime == SumField(completions, "time_ms")
     IN Goto(r, IF Len(completions) = 0 THEN "hfStats"
                ELSE IF totalTime > SPEED_RUNNER_THRESHOLD_MS THEN "hfStats"
                ELSE "srGet")
  /\ UNCHANGED <<scenariosData, dbVars, clientVars>>

SrGet(r) ==
  /\ At(r, "srGet")
  /\ Goto(r, IF SpeedRunner \in badgeRows THEN "srHas" ELSE "hfStats")
  /\ UNCHANGED <<scenariosData, dbVars, clientVars>>

SrHas(r) == At(r, "srHas") /\ BadgeHas(r, SpeedRunner, "srInsUB", "hfStats")

SrInsertUserBadge(r) ==
  At(r, "srInsUB") /\ BadgeInsertUserBadge(r, SpeedRunner, "srInsBP")

SrInsertPoints(r) ==
  At(r, "srInsBP") /\ BadgeInsertPoints(r, SpeedRunner, "hfStats")

\* checkHintFreeExpertBadge, lines 397-420: SELECT user_stats; hints used
\* for this scenario end the check
HfStats(r) ==
  /\ At(r, "hfStats")
  /\ Goto(r, IF ~user_stats.row THEN "hfInsStats"
             ELSE IF user_stats.hints[ScenarioOf(req[r].task)] > 0 THEN "final"
             ELSE "hfGet")
  /\ UNCHANGED <<scenariosData, dbVars, clientVars>>

\* lines 401-405: INSERT INTO user_stats (user_id PRIMARY KEY)
HfInsertStats(r) ==
  /\ At(r, "hfInsStats")
  /\ IF user_stats.row
     THEN SetReq(r, Failed(req[r])) /\ UNCHANGED user_stats
     ELSE Goto(r, "hfGet") /\ user_stats' = [NoStats EXCEPT !.row = TRUE]
  /\ UNCHANGED <<scenariosData, scenarioRows, taskRows, badgeRows,
                 task_completions, user_badges, badge_points_awarded,
                 clientVars>>

HfGet(r) ==
  /\ At(r, "hfGet")
  /\ Goto(r, IF HintFree \in badgeRows THEN "hfHas" ELSE "final")
  /\ UNCHANGED <<scenariosData, dbVars, clientVars>>

HfHas(r) == At(r, "hfHas") /\ BadgeHas(r, HintFree, "hfInsUB", "final")

HfInsertUserBadge(r) ==
  At(r, "hfInsUB") /\ BadgeInsertUserBadge(r, HintFree, "hfInsBP")

HfInsertPoints(r) ==
  At(r, "hfInsBP") /\ BadgeInsertPoints(r, HintFree, "final")

\* lines 212-216 and 232-239: no badge points, answer with newTotalScore;
\* otherwise SUM(points_awarded) again
SrvFinal(r) ==
  /\ At(r, "final")
  /\ LET q == req[r] IN
     IF q.pts > 0
     THEN SetReq(r, [q EXCEPT !.pc = "finSum2", !.seen = {DbTotal},
                     !.badgeTotal = BadgePointsTotal(badge_points_awarded)])
     ELSE SetReq(r, Responded(q, q.total, 0))
  /\ UNCHANGED <<scenariosData, dbVars, clientVars>>

\* lines 217-230: SUM(score_awarded) again and the response
SrvFinalSum2(r) ==
  /\ At(r, "finSum2")
  /\ SetReq(r, Responded(req[r],
        TaskScoreTotal(task_completions) + req[r].badgeTotal, req[r].pts))
  /\ UNCHANGED <<scenariosData, dbVars, clientVars>>

ServerPcs ==
  {"insScen", "getTask", "insTask", "getExisting", "acSum1", "acSum2",
   "insCompl", "sum1", "sum2", "count", "sbGet", "sbIns", "sbHas",
   "sbInsUB", "sbInsBP", "srTimes", "srGet", "srHas", "srInsUB", "srInsBP",
   "hfStats", "hfInsStats", "hfGet", "hfHas", "hfInsUB", "hfInsBP",
   "final", "finSum2"}

\* a catch that deletes the completion the failed submission recorded
SrvDbErrorRollback(r) ==
  /\ req[r].pc \in ServerPcs
  /\ SetReq(r, Failed(req[r]))
  /\ task_completions' =
       SelectSeq(task_completions, LAMBDA c : c.task # req[r].task)
  /\ UNCHANGED <<scenariosData, scenarioRows, taskRows, badgeRows,
                 user_badges, badge_points_awarded, user_stats, clientVars>>

\* lines 241-244: an awaited database call rejects (storage unavailable);
\* the catch answers 500 and undoes nothing
SrvDbError(r) ==
  /\ req[r].pc \in ServerPcs
  /\ SetReq(r, Failed(req[r]))
  /\ UNCHANGED <<scenariosData, dbVars, clientVars>>

\* --------------------------------------- GET /api/tasks/:taskId/hint
\* lines 668-744 with trackHintUsage (461-492): the points check for a
\* paid hint, then the per-scenario hint counter is incremented
GetHint(t) ==
  /\ TaskDef(scenariosData, t).hint
  /\ LET s == ScenarioOf(t)
         hintCost == TaskDef(scenariosData, t).hintCost
         currentPoints == TaskScoreTotal(task_completions)
                          + BadgePointsTotal(badge_points_awarded)
     IN /\ hintCost > 0 => currentPoints >= hintCost
        /\ IF ~user_stats.row
           THEN user_stats' = [NoStats EXCEPT !.row = TRUE, !.hints[s] = 1]
           ELSE /\ user_stats.hints[s] < MaxHints
                /\ user_stats' = [user_stats EXCEPT !.hints[s] = @ + 1]
  /\ UNCHANGED <<scenariosData, scenarioRows, taskRows, badgeRows,
                 task_completions, user_badges, badge_points_awarded, req,
                 clientVars>>

\* --------------------------------- POST /api/scenarios (scenario editor)
\* writes scenarios.json and hot-reloads scenariosData of the task routes
SaveScenarios(v) ==
  /\ v # scenariosData
  /\ scenariosData' = v
  /\ UNCHANGED <<dbVars, req, clientVars>>

\* ------------------------------ GET /api/tasks/completions (server side)
\* scenarioTaskCounts[code]++ per completion row
CompletionRows(rows, s) ==
  Cardinality({i \in DOMAIN rows : rows[i].task \in TaskSet(s)})
\* completedScenarios: taskCount > 0 && completedCount === taskCount
ServerCompletedScenarios(rows) ==
  {s \in Scenarios : Len(ScenarioTasks(s)) > 0
                     /\ CompletionRows(rows, s) = Len(ScenarioTasks(s))}

\* ------------------------------------------------ client: taskManager.js
\* state.scenarioTasks of the scenario the client has initialised
ClientTasks == IF currentScenario = None THEN <<>> ELSE ScenarioTasks(currentScenario)

\* currentTask(): the task at the pointer, or none
currentTask ==
  IF ~isScenarioActive \/ taskIndex >= Len(ClientTasks) THEN None
  ELSE ClientTasks[taskIndex + 1]

\* scenario routes, processScenarios (407-452): the task as GET
\* /api/scenarios sends it
PublicTask(task) ==
  [points |-> task.points, checkType |-> task.checkType,
   interactionTarget |-> task.interactionTarget,
   hintCost |-> task.hintCost, hasHint |-> task.hint,
   checkCommand |-> task.checkCommand, checkArgs |-> task.checkArgs]

\* the task object the client holds (from the scenario list it loaded)
ClientDef(t) == PublicTask(TaskDef(scenarioData, t))

\* onScenarioComplete without its duplicate-event guard
AlreadyCompletedScenarioNoGuard(s, ids) == FALSE
\* onScenarioComplete, lines 606-610: the duplicate-event guard
AlreadyCompletedScenario(s, ids) == s \in ids

\* advanceTask (367-392) with onScenarioComplete (603-646).
\* saveCompletedScenario calls the async getCompletedScenarios and uses
\* the promise as if it were the list, so its own write never happens;
\* what remains of it is the background fetch that getCompletedScenarios
\* starts (refreshPending).
advanceTask ==
  IF ~isScenarioActive
  THEN UNCHANGED <<taskIndex, isScenarioActive, completedScenarioIds,
                   refreshPending, emitted>>
  ELSE /\ taskIndex' = taskIndex + 1
       /\ IF taskIndex + 1 >= Len(ClientTasks)
             /\ ~AlreadyCompletedScenario(currentScenario, completedScenarioIds)
          THEN /\ isScenarioActive' = FALSE
               /\ completedScenarioIds' = completedScenarioIds \cup {currentScenario}
               /\ refreshPending' = TRUE
               /\ emitted' = [emitted EXCEPT ![currentScenario] = @ + 1]
          ELSE UNCHANGED <<isScenarioActive, completedScenarioIds,
                           refreshPending, emitted>>

\* getCompletedScenarios, lines 547-576: the fetch started by
\* saveCompletedScenario stores the server's list in sessionStorage, or
\* fails and stores nothing
GetCompletedScenarios(ok) ==
  /\ refreshPending
  /\ refreshPending' = FALSE
  /\ sessionCompleted' = IF ok THEN ServerCompletedScenarios(task_completions)
                         ELSE sessionCompleted
  /\ UNCHANGED <<scenariosData, dbVars, req, scenarioData, currentScenario,
                 taskIndex, isScenarioActive, completedTaskIds,
                 processingTaskIds, completedScenarioIds, emitted, advanced,
                 hudVars, consoleVars>>

\* loadScenarios, lines 152-170: fetched once, then cached
loadScenarios ==
  /\ scenarioData = None
  /\ scenarioData' = scenariosData
  /\ UNCHANGED <<scenariosData, dbVars, req, currentScenario, taskIndex,
                 isScenarioActive, completedTaskIds, processingTaskIds,
                 completedScenarioIds, sessionCompleted, refreshPending,
                 emitted, advanced,
                 hudVars, consoleVars>>

\* loadCompletedScenarios, lines 224-255
loadCompletedScenarios ==
  /\ sessionCompleted' = ServerCompletedScenarios(task_completions)
  /\ completedTaskIds' = CompletedTasks(task_completions)
  /\ UNCHANGED <<scenariosData, dbVars, req, scenarioData, currentScenario,
                 taskIndex, isScenarioActive, processingTaskIds,
                 completedScenarioIds, refreshPending, emitted, advanced,
                 hudVars, consoleVars>>

\* initTaskSystem, lines 295-308: index after the completed prefix
RECURSIVE HighestCompleted(_, _, _)
HighestCompleted(tasks, ids, i) ==
  IF i > Len(tasks) THEN Len(tasks)
  ELSE IF tasks[i] \in ids THEN HighestCompleted(tasks, ids, i + 1)
  ELSE i - 1

\* ------------------------------------ console.js: the command registry
\* the commands of registerBuiltinCommands (1104-1377)
BuiltinNames ==
  {"help", "echo", "clear", "env", "tcpdump", "volatility", "scenario",
   "progress", "lsblk", "mount", "umount", "tutorial"}
\* a handler of the registry: built in, or the output of a custom command
BuiltinHandler == [custom |-> FALSE, output |-> ""]
CustomHandler(output) == [custom |-> TRUE, output |-> output]
\* the registry after initConsole
BuiltinRegistry ==
  [commands |-> [n \in BuiltinNames |-> BuiltinHandler], custom |-> {}]
\* registerCustomCommands, lines 282-346
registerCustomCommands(reg, declared) ==
  [commands |-> [n \in DOMAIN reg.commands \cup DOMAIN declared |->
                   IF n \in DOMAIN declared THEN CustomHandler(declared[n])
                   ELSE reg.commands[n]],
   custom |-> reg.custom \cup DOMAIN declared]
\* unregisterCustomCommands, lines 351-357
unregisterCustomCommands(reg) ==
  [commands |-> [n \in DOMAIN reg.commands \ reg.custom |-> reg.commands[n]],
   custom |-> {}]
\* the listener of SCENARIO_CHANGED, lines 1478-1488
ScenarioChanged(reg, declared) ==
  registerCustomCommands(unregisterCustomCommands(reg), declared)

\* initTaskSystem, lines 271-345 (switchScenario, 399-424, is the same
\* assignment after clearing isScenarioActive)
initTaskSystem(s) ==
  /\ scenarioData # None
  /\ currentScenario' = s
  /\ IF s \in sessionCompleted
     THEN /\ taskIndex' = Len(ScenarioTasks(s))
          /\ isScenarioActive' = FALSE
     ELSE LET idx == HighestCompleted(ScenarioTasks(s), completedTaskIds, 1)
          IN /\ taskIndex' = idx
             /\ isScenarioActive' = (idx < Len(ScenarioTasks(s)))
  /\ advanced' = {}
  /\ registry' = ScenarioChanged(registry, CustomCommands(scenarioData, s))
  /\ UNCHANGED <<scenariosData, dbVars, req, scenarioData, completedTaskIds,
                 processingTaskIds, completedScenarioIds, sessionCompleted,
                 refreshPending, emitted,
                 hudVars, con, cwd, fsVars>>

\* resetTaskManager, lines 92-128 (logout: the session ends, and with it
\* the history of this session's events)
resetTaskManager ==
  /\ scenarioData' = None
  /\ currentScenario' = None
  /\ taskIndex' = 0
  /\ isScenarioActive' = FALSE
  /\ completedTaskIds' = {}
  /\ processingTaskIds' = {}
  /\ completedScenarioIds' = {}
  /\ emitted' = [s \in Scenarios |-> 0]
  /\ advanced' = {}
  /\ UNCHANGED <<scenariosData, dbVars, req, sessionCompleted, refreshPending,
                 hudVars, consoleVars>>

\* --------------------------------------------- client: submissions
Submit(r, kind, t, answer, time) ==
  SetReq(r, [IdleReq EXCEPT !.pc = "net", !.kind = kind, !.task = t,
                            !.answer = answer, !.time = time])

\* request slots are interchangeable: the lowest free one is taken
Free(r) == req[r].pc = "idle" /\ \A x \in Reqs : x < r => req[x].pc # "idle"

\* MESH_CLICKED handler, lines 811-845: a click on the mesh of the current
\* interaction task, unless that task is already being processed
MeshClicked(r) ==
  /\ Free(r)
  /\ currentTask # None
  /\ LET task == ClientDef(currentTask) IN
     /\ task.checkType = "interaction" /\ task.interactionTarget # None
     /\ currentTask \notin processingTaskIds
     /\ processingTaskIds' = processingTaskIds \cup {currentTask}
     /\ Submit(r, "mesh", currentTask,
               Answer(TRUE, task.interactionTarget, <<>>), NoTime)
  /\ UNCHANGED <<scenariosData, dbVars, scenarioData, currentScenario,
                 taskIndex, isScenarioActive, completedTaskIds,
                 completedScenarioIds, sessionCompleted, refreshPending,
                 emitted, advanced,
                 hudVars, consoleVars>>

\* console.js TaskManager.checkCompletion (940-987) and notifyCompletion
\* up to the request (989-1007): a command that matches the current
\* command task locally is submitted with the task's own command line
CommandMatched(r) ==
  /\ Free(r)
  /\ currentTask # None
  /\ LET task == ClientDef(currentTask) IN
     /\ task.checkCommand # None
     /\ Submit(r, "cmd", currentTask,
               Answer(FALSE, task.checkCommand, task.checkArgs), NoTime)
  /\ UNCHANGED <<scenariosData, dbVars, clientVars>>

\* texts a learner may type into the flag input
FlagTexts == {FlagValue}

\* taskHud.js handleFlagSubmit up to the request (398-407): the input of
\* the active flag task is disabled while its submission is in flight
FlagSubmitted(r, text) ==
  /\ Free(r)
  /\ currentTask # None
  /\ ClientDef(currentTask).checkType = "flag"
  /\ \A x \in Reqs : ~(req[x].kind = "flag" /\ req[x].task = currentTask)
  /\ Submit(r, "flag", currentTask, Answer(FALSE, text, <<>>), NoTime)
  /\ UNCHANGED <<scenariosData, dbVars, clientVars>>

\* the answer string that validateAnswer accepts for task t of version v
ExpectedAnswer(v, t) ==
  LET task == TaskDef(v, t) IN
  IF task.checkType = "interaction"
  THEN Answer(TRUE, task.interactionTarget, <<>>)
  ELSE IF task.checkCommand # None
  THEN Answer(FALSE, task.checkCommand, task.checkArgs)
  ELSE Answer(FALSE, task.expectedValue, <<>>)

ApiTimes == {FastMs}

\* api.js tasksAPI.submitTask (153-158) called with any task id and
\* timeMs: the route takes them from the request, not from the pointer
ApiSubmit(r, t, time) ==
  /\ Free(r)
  /\ Submit(r, "api", t, ExpectedAnswer(scenariosData, t), time)
  /\ UNCHANGED <<scenariosData, dbVars, clientVars>>

\* api.js apiRequest (37-49): fetch rejects, the request never arrives
RequestFailed(r) ==
  /\ At(r, "net")
  /\ SetReq(r, Failed(req[r]))
  /\ UNCHANGED <<scenariosData, dbVars, clientVars>>

Done(r) == SetReq(r, IdleReq)

\* history kept at the response: an accepted answer that advanceTask acts on
Moved(r) ==
  IF req[r].status = "ok" /\ req[r].correct /\ isScenarioActive
  THEN advanced \cup {req[r].task} ELSE advanced

\* PointsBadge.setPoints(result.newTotalScore) of an accepted answer
SyncedPoints(r) ==
  IF req[r].status = "ok" /\ req[r].correct THEN req[r].total ELSE points

\* MESH_CLICKED handler, lines 845-930: the three outcomes
MeshResult(r) ==
  /\ At(r, "resp") /\ req[r].kind = "mesh"
  /\ Done(r)
  /\ processingTaskIds' = processingTaskIds \ {req[r].task}
  /\ completedTaskIds' =
       IF req[r].status = "ok" /\ req[r].correct
       THEN completedTaskIds \cup {req[r].task} ELSE completedTaskIds
  /\ advanceTask
  /\ advanced' = Moved(r)
  /\ points' = SyncedPoints(r)
  /\ UNCHANGED <<scenariosData, dbVars, scenarioData, currentScenario,
                 sessionCompleted, hintReq, hintShown, unlockedHints,
                 consoleVars>>

\* console.js notifyCompletion, lines 1007-1087
CommandResult(r) ==
  /\ At(r, "resp") /\ req[r].kind = "cmd"
  /\ Done(r)
  /\ IF req[r].status = "ok" /\ req[r].correct
     THEN /\ completedTaskIds' = completedTaskIds \cup {req[r].task}
          /\ advanceTask
     ELSE UNCHANGED <<completedTaskIds, taskIndex, isScenarioActive,
                      completedScenarioIds, refreshPending, emitted>>
  /\ advanced' = Moved(r)
  /\ points' = SyncedPoints(r)
  /\ UNCHANGED <<scenariosData, dbVars, scenarioData, currentScenario,
                 processingTaskIds, sessionCompleted, hintReq, hintShown,
                 unlockedHints,
                 consoleVars>>

\* taskHud.js handleFlagSubmit, lines 407-465
FlagResult(r) ==
  /\ At(r, "resp") /\ req[r].kind = "flag"
  /\ Done(r)
  /\ IF req[r].status = "ok" /\ req[r].correct
     THEN advanceTask
     ELSE UNCHANGED <<taskIndex, isScenarioActive, completedScenarioIds,
                      refreshPending, emitted>>
  /\ advanced' = Moved(r)
  /\ points' = SyncedPoints(r)
  /\ UNCHANGED <<scenariosData, dbVars, scenarioData, currentScenario,
                 completedTaskIds, processingTaskIds, sessionCompleted,
                 hintReq, hintShown, unlockedHints,
                 consoleVars>>

\* a direct caller of the API keeps no task pointer
ApiResult(r) ==
  /\ At(r, "resp") /\ req[r].kind = "api"
  /\ Done(r)
  /\ UNCHANGED <<scenariosData, dbVars, clientVars>>

\* ------------------------------------------- console: console.js
HomePath == <<"/", "home", "/", "user">>
\* the directories of the scenario's file system
Dirs == {<<"/">>, <<"/", "home">>, HomePath, EvidencePath}

\* p.split('/').filter(Boolean)
Segments(p) == SelectSeq(p, LAMBDA c : c # "/")
\* '/' + parts.join('/')
RECURSIVE JoinSegments(_)
JoinSegments(parts) ==
  IF parts = <<>> THEN <<"/">>
  ELSE IF Len(parts) = 1 THEN <<"/", parts[1]>>
  ELSE JoinSegments(SubSeq(parts, 1, Len(parts) - 1))
       \o <<"/", parts[Len(parts)]>>
\* the loop of resolvePath and of VFSManager.normalizePath: '..' pops, '.'
\* and empty segments are skipped, names are pushed
RECURSIVE WalkSegments(_, _)
WalkSegments(stack, segs) ==
  IF segs = <<>> THEN stack
  ELSE LET seg == Head(segs) IN
       WalkSegments(
         IF seg = ".." THEN (IF stack = <<>> THEN <<>>
                             ELSE SubSeq(stack, 1, Len(stack) - 1))
         ELSE IF seg = "." THEN stack
         ELSE Append(stack, seg),
         Tail(segs))
\* VFSManager.resolvePath, lines 87-96 (the server's vfs.js resolvePath is
\* taken to be the same function)
resolvePath(path, base) ==
  IF Len(path) > 0 /\ path[1] = "/"
  THEN JoinSegments(WalkSegments(<<>>, Segments(path)))
  ELSE JoinSegments(WalkSegments(Segments(base), Segments(path)))

\* arg.includes('/') || arg.includes('.')
LooksLikePath(arg) == \E i \in DOMAIN arg : arg[i] \in {"/", ".", ".."}

\* TaskManager.checkCompletion, lines 940-987: the exact match, the match
\* of the working directory for a command without arguments, the match
\* after resolving the last argument as a path
checkCompletion(task, cmd, args, dir) ==
  /\ task.checkCommand # None /\ task.checkCommand = cmd
  /\ IF Len(task.checkArgs) > 0
     THEN \/ args = task.checkArgs
          \/ /\ Len(args) = 0 /\ Len(task.checkArgs) = 1
             /\ StripSlash(dir) = StripSlash(task.checkArgs[1])
          \/ /\ Len(args) = Len(task.checkArgs)
             /\ \A i \in DOMAIN args :
                  (IF i = Len(args) /\ LooksLikePath(args[i])
                   THEN StripSlash(resolvePath(args[i], dir))
                   ELSE args[i])
                  = StripSlash(task.checkArgs[i])
     ELSE TRUE

\* console routes, executeCommand `case 'cd'` (151-167): the directory
\* after the command, or none when cd reports an error
CdResult(args, dir) ==
  IF Len(args) = 0 THEN HomePath
  ELSE IF resolvePath(args[1], dir) \in Dirs THEN resolvePath(args[1], dir)
  ELSE None

\* the command lines a learner types
TypedArgs ==
  {<<>>, <<EvidencePath>>, <<EvidencePath \o <<"/">>>>, <<<<"evidence">>>>,
   <<<<"..">>>>}

IdleCommand == [pc |-> "idle", cmd |-> None, args |-> <<>>]

\* CommandExecutor.execute, lines 828-846: the line is parsed and sent to
\* the console route
CommandTyped(cmd, args) ==
  /\ con.pc = "idle"
  /\ currentScenario # None
  /\ con' = [pc |-> "sent", cmd |-> cmd, args |-> args]
  /\ UNCHANGED <<scenariosData, dbVars, req, scenarioData, currentScenario,
                 taskIndex, isScenarioActive, completedTaskIds,
                 processingTaskIds, completedScenarioIds, sessionCompleted,
                 refreshPending, emitted, advanced, hudVars, cwd, fsVars,
                 registry>>

\* the console route runs the command (35-80); the client takes the new
\* working directory (848-851) and, unless the command failed, checks the
\* current task (866-868); a match is submitted with the task's own
\* command line (notifyCompletion, 989-1007)
CommandExecuted(r) ==
  /\ con.pc = "sent"
  /\ Free(r)
  /\ con' = IdleCommand
  /\ LET newCwd == CdResult(con.args, cwd)
         dir == IF newCwd = None THEN cwd ELSE newCwd
     IN /\ cwd' = dir
        /\ IF newCwd # None /\ currentTask # None
              /\ checkCompletion(ClientDef(currentTask), con.cmd, con.args, dir)
           THEN Submit(r, "cmd", currentTask,
                       Answer(FALSE, ClientDef(currentTask).checkCommand,
                              ClientDef(currentTask).checkArgs), NoTime)
           ELSE UNCHANGED req
  /\ UNCHANGED <<scenariosData, dbVars, scenarioData, currentScenario,
                 taskIndex, isScenarioActive, completedTaskIds,
                 processingTaskIds, completedScenarioIds, sessionCompleted,
                 refreshPending, emitted, advanced, hudVars, fsVars,
                 registry>>

\* ------------------------ the virtual file system: console routes
\* A tree is the map from the paths that exist (the names from the root
\* down, the root being <<>>) to their nodes; a node's children are the
\* paths one name longer.  No name of the model begins with a dot.
\* no node, no row
Null == <<>>
DirNode == [type |-> "dir", content |-> ""]
FileNode(content) == [type |-> "file", content |-> content]

\* the paths at or below p
Under(p, q) == Len(q) >= Len(p) /\ SubSeq(q, 1, Len(p)) = p
\* getNode: the node at the absolute path, or none
getNode(tree, abs) ==
  IF Segments(abs) \in DOMAIN tree THEN tree[Segments(abs)] ELSE Null
\* Object.keys(node.children)
ChildNames(tree, p) ==
  {q[Len(q)] : q \in {x \in DOMAIN tree : Len(x) = Len(p) + 1 /\ Under(p, x)}}
\* delete parent.children[name]: the entry goes with all that hangs on it
RemoveEntry(tree, p) ==
  [q \in {x \in DOMAIN tree : ~Under(p, x)} |-> tree[q]]
\* parent.children[name] = node, for a node without children
PutNode(tree, p, node) == (p :> node) @@ RemoveEntry(tree, p)
\* the loop that creates the directories of parts[1..n] that are missing
MakeDirs(tree, parts, n) ==
  [q \in {SubSeq(parts, 1, i) : i \in 1..n} \ DOMAIN tree |-> DirNode] @@ tree
\* deepClone (cp, lines 343-354) of the node at src, stored as the entry dst
CloneTo(tree, src, dst) ==
  LET below == {SubSeq(x, Len(src) + 1, Len(x)) :
                  x \in {y \in DOMAIN tree : Under(src, y)}}
  IN [q \in {dst \o rest : rest \in below} |->
        LET from == tree[src \o SubSeq(q, Len(dst) + 1, Len(q))] IN
        IF from.type = "file" THEN FileNode(from.content) ELSE DirNode]
     @@ RemoveEntry(tree, dst)

\* the walk to the parent directory of mkdir, touch (checkDirs) and rm:
\* the first ancestor that fails decides the error
RECURSIVE WalkToParent(_, _, _, _)
WalkToParent(tree, parts, i, checkDirs) ==
  IF i > Len(parts) - 1 THEN None
  ELSE IF SubSeq(parts, 1, i) \notin DOMAIN tree
  THEN "No such file or directory"
  ELSE IF checkDirs /\ tree[SubSeq(parts, 1, i)].type # "dir"
  THEN "Not a directory"
  ELSE WalkToParent(tree, parts, i + 1, checkDirs)

\* a token or a path as text
RECURSIVE Text(_)
Text(token) == IF token = <<>> THEN "" ELSE Head(token) \o Text(Tail(token))

\* what executeCommand returns, with the tree it has mutated in place
Result(tree, dir) ==
  [output |-> "", listing |-> {}, error |-> None, newCwd |-> dir,
   vfs |-> tree, vfsModified |-> FALSE]
Fails(tree, dir, error) == [Result(tree, dir) EXCEPT !.error = error]
Modifies(tree, dir, new) ==
  [Result(tree, dir) EXCEPT !.vfs = new, !.vfsModified = TRUE]

\* case 'ls', lines 130-149 (the listing is taken as the set of names)
Ls(args, tree, dir) ==
  LET abs == IF args = <<>> \/ args[1] = <<".">> THEN dir
             ELSE resolvePath(args[1], dir)
      node == getNode(tree, abs)
  IN IF node = Null THEN Fails(tree, dir, "No such file or directory")
     ELSE IF node.type = "file"
     THEN [Result(tree, dir) EXCEPT !.listing = {abs[Len(abs)]}]
     ELSE [Result(tree, dir) EXCEPT !.listing = ChildNames(tree, Segments(abs))]


\* cd that moves even where it reports that there is no such directory
CdAnyway(args, tree, dir) ==
  IF args = <<>> THEN [Result(tree, dir) EXCEPT !.newCwd = HomePath]
  ELSE LET node == getNode(tree, resolvePath(args[1], dir)) IN
       IF node = Null
       THEN [Fails(tree, dir, "No such directory")
               EXCEPT !.newCwd = resolvePath(args[1], dir)]
       ELSE IF node.type # "dir" THEN Fails(tree, dir, "Not a directory")
       ELSE [Result(tree, dir) EXCEPT !.newCwd = resolvePath(args[1], dir)]

\* case 'cd', lines 151-167
Cd(args, tree, dir) ==
  IF args = <<>> THEN [Result(tree, dir) EXCEPT !.newCwd = HomePath]
  ELSE LET node == getNode(tree, resolvePath(args[1], dir)) IN
       IF node = Null THEN Fails(tree, dir, "No such directory")
       ELSE IF node.type # "dir" THEN Fails(tree, dir, "Not a directory")
       ELSE [Result(tree, dir) EXCEPT !.newCwd = resolvePath(args[1], dir)]

\* case 'cat', lines 169-185
Cat(args, tree, dir) ==
  IF args = <<>> THEN Fails(tree, dir, "missing operand")
  ELSE LET node == getNode(tree, resolvePath(args[1], dir)) IN
       IF node = Null THEN Fails(tree, dir, "No such file")
       ELSE IF node.type = "file"
       THEN [Result(tree, dir) EXCEPT !.output = node.content]
       ELSE Fails(tree, dir, "Is a directory")

\* mkdir that makes the directories missing on the way
MkdirParents(args, tree, dir) ==
  IF args = <<>> THEN Fails(tree, dir, "missing operand")
  ELSE LET parts == Segments(resolvePath(args[1], dir)) IN
       IF parts \in DOMAIN tree THEN Fails(tree, dir, "File exists")
       ELSE Modifies(tree, dir, MakeDirs(tree, parts, Len(parts)))

\* case 'mkdir', lines 216-252
Mkdir(args, tree, dir) ==
  IF args = <<>> THEN Fails(tree, dir, "missing operand")
  ELSE LET pathParts == Segments(resolvePath(args[1], dir))
           error == WalkToParent(tree, pathParts, 1, TRUE)
       IN IF pathParts = <<>>
          THEN Fails(tree, dir, "cannot create root directory")
          ELSE IF error # None THEN Fails(tree, dir, error)
          ELSE IF pathParts \in DOMAIN tree
          THEN Fails(tree, dir, "File exists")
          ELSE Modifies(tree, dir, PutNode(tree, pathParts, DirNode))

\* case 'touch', lines 254-289
Touch(args, tree, dir) ==
  IF args = <<>> THEN Fails(tree, dir, "missing operand")
  ELSE LET pathParts == Segments(resolvePath(args[1], dir))
           error == WalkToParent(tree, pathParts, 1, TRUE)
       IN IF pathParts = <<>> THEN Fails(tree, dir, "cannot create root")
          ELSE IF error # None THEN Fails(tree, dir, error)
          ELSE IF pathParts \in DOMAIN tree THEN Result(tree, dir)
          ELSE Modifies(tree, dir, PutNode(tree, pathParts, FileNode("")))

\* rm that is content with an entry that is not there
RmForce(args, tree, dir) ==
  IF args = <<>> THEN Fails(tree, dir, "missing operand")
  ELSE LET pathParts == Segments(resolvePath(args[1], dir)) IN
       IF pathParts \notin DOMAIN tree THEN Result(tree, dir)
       ELSE Modifies(tree, dir, RemoveEntry(tree, pathParts))

\* case 'rm', lines 291-322
Rm(args, tree, dir) ==
  IF args = <<>> THEN Fails(tree, dir, "missing operand")
  ELSE LET pathParts == Segments(resolvePath(args[1], dir))
           error == WalkToParent(tree, pathParts, 1, FALSE)
       IN IF pathParts = <<>> THEN Fails(tree, dir, "cannot remove root")
          ELSE IF error # None THEN Fails(tree, dir, error)
          ELSE IF pathParts \notin DOMAIN tree
          THEN Fails(tree, dir, "No such file or directory")
          ELSE Modifies(tree, dir, RemoveEntry(tree, pathParts))

\* cp that stores the clone as the destination itself, directory or not
CpFlat(args, tree, dir) ==
  LET filteredArgs == SelectSeq(args, LAMBDA a : a \notin {<<"-r">>, <<"-R">>})
  IN IF Len(filteredArgs) < 2 THEN Fails(tree, dir, "missing file operand")
     ELSE
     LET srcPath == Segments(resolvePath(filteredArgs[1], dir))
         destParts == Segments(resolvePath(filteredArgs[2], dir))
     IN IF srcPath \notin DOMAIN tree
        THEN Fails(tree, dir, "No such file or directory")
        ELSE Modifies(tree, dir,
               CloneTo(MakeDirs(tree, destParts, Len(destParts) - 1),
                       srcPath, destParts))

\* case 'cp', lines 324-408
IsRecursiveFlag(a) == a \in {<<"-r">>, <<"-R">>}
Cp(args, tree, dir) ==
  LET recursive == \E i \in DOMAIN args : IsRecursiveFlag(args[i])
      filteredArgs == SelectSeq(args, LAMBDA a : ~IsRecursiveFlag(a))
  IN IF Len(filteredArgs) < 2 THEN Fails(tree, dir, "missing file operand")
     ELSE
     LET srcPath == Segments(resolvePath(filteredArgs[1], dir))
         destParts == Segments(resolvePath(filteredArgs[2], dir))
     IN IF srcPath \notin DOMAIN tree
        THEN Fails(tree, dir, "No such file or directory")
        ELSE IF tree[srcPath].type = "dir" /\ ~recursive
        THEN Fails(tree, dir, "-r not specified")
        ELSE
        LET made == MakeDirs(tree, destParts, Len(destParts) - 1)
            existingDest == IF destParts \in DOMAIN made
                            THEN made[destParts] ELSE Null
        IN IF existingDest # Null /\ existingDest.type = "dir"
           THEN Modifies(tree, dir,
                  CloneTo(made, srcPath,
                          destParts \o <<IF srcPath = <<>> THEN "undefined"
                                          ELSE srcPath[Len(srcPath)]>>))
           ELSE Modifies(tree, dir, CloneTo(made, srcPath, destParts))

\* lines 20-28: the scenarios of the console route, read from the file
\* when the module is loaded
ConsoleScenariosData == "v1"
\* the scenario of the user_vfs_state row
VfsScenario == "S1"
\* the default case, lines 431-460: a command the scenario declares
\* answers its output, any other command is unknown
customCommand(data, scenarioCode, cmd, tree, dir) ==
  IF cmd \in DOMAIN CustomCommands(data, scenarioCode)
  THEN [Result(tree, dir) EXCEPT
          !.output = CustomCommands(data, scenarioCode)[cmd]]
  ELSE Fails(tree, dir, "Unknown command")
\* executeCommand, lines 119-464
executeCommand(cmd, args, tree, dir) ==
  CASE cmd = "pwd" -> [Result(tree, dir) EXCEPT !.output = Text(dir)]
    [] cmd = "ls" -> Ls(args, tree, dir)
    [] cmd = "cd" -> Cd(args, tree, dir)
    [] cmd = "cat" -> Cat(args, tree, dir)
    [] cmd = "mkdir" -> Mkdir(args, tree, dir)
    [] cmd = "touch" -> Touch(args, tree, dir)
    [] cmd = "rm" -> Rm(args, tree, dir)
    [] cmd = "cp" -> Cp(args, tree, dir)
    [] OTHER -> customCommand(ConsoleScenariosData, VfsScenario, cmd,
                              tree, dir)

\* the tree of a scenario when its user_vfs_state row is created
InitialTree == [p \in {Segments(d) : d \in Dirs} |-> DirNode]

\* ------------------------------------------------ command lines
\* A line is the tuple of its pieces: the blank " ", the quote "\"", the
\* characters ">" and "/", and the words between them; a token is the
\* tuple of the pieces between two blanks.
\* the loop of Parser.parse (364-379) and of parseCommand (93-108)
RECURSIVE Tokens(_, _, _, _)
Tokens(line, cur, inQ, tokens) ==
  IF line = <<>> THEN (IF cur # <<>> THEN Append(tokens, cur) ELSE tokens)
  ELSE LET ch == Head(line) IN
       IF ch = "\"" THEN Tokens(Tail(line), cur, ~inQ, tokens)
       ELSE IF ch = " " /\ ~inQ
       THEN Tokens(Tail(line), <<>>, inQ,
                   IF cur # <<>> THEN Append(tokens, cur) ELSE tokens)
       ELSE Tokens(Tail(line), Append(cur, ch), inQ, tokens)

\* a token as the command name it is compared with
Word(token) == IF Len(token) = 1 THEN token[1] ELSE ""
NoRedir == [on |-> FALSE, append |-> FALSE, path |-> <<>>]
\* the positions of the tokens '>' and '>>'
RedirAt(tokens) ==
  {i \in DOMAIN tokens : tokens[i] \in {<<">">>, <<">", ">">>}}
FirstRedir(tokens) == CHOOSE i \in RedirAt(tokens) : \A j \in RedirAt(tokens) : i <= j

\* Parser.parse, lines 361-401
Parse(line) ==
  LET tokens == Tokens(line, <<>>, FALSE, <<>>)
      cmdArgs == IF RedirAt(tokens) = {} THEN tokens
                 ELSE SubSeq(tokens, 1, FirstRedir(tokens) - 1)
  IN [cmd |-> IF cmdArgs = <<>> THEN "" ELSE Word(cmdArgs[1]),
      args |-> IF cmdArgs = <<>> THEN <<>> ELSE Tail(cmdArgs),
      redir |-> IF RedirAt(tokens) = {} THEN NoRedir
                ELSE [on |-> TRUE,
                      append |-> tokens[FirstRedir(tokens)] = <<">", ">">>,
                      path |-> IF FirstRedir(tokens) < Len(tokens)
                               THEN tokens[FirstRedir(tokens) + 1]
                               ELSE <<>>]]

\* parseCommand of the console routes, lines 90-114
parseCommand(line) ==
  LET tokens == Tokens(line, <<>>, FALSE, <<>>) IN
  [cmd |-> IF tokens = <<>> THEN "" ELSE Word(tokens[1]),
   args |-> IF tokens = <<>> THEN <<>> ELSE Tail(tokens)]

\* --------------------------------------- devices: routes/devices.js
DeviceNames == {"sdb", "sdc"}
\* the mountContent a client attaches the device with: file name -> data
DeviceContent(name) == IF name = "sdb" THEN [f |-> "log"] ELSE [f |-> "img"]
UsbPath == <<"/", "mnt", "/", "usb">>
MountPoints == {PathM, UsbPath}
\* '/dev/' + name + '1', and a forensic image path
DevicePath(name) == <<"/", "dev", "/", name, "1">>
ForensicImage == <<"/", "forensic", "/", "evidence.img">>
\* device.startsWith('/forensic/') && device.endsWith('.img')
IsForensicImage(device) == device = ForensicImage
\* device.replace('/dev/', '').replace(/1$/, '')
DeviceNameOf(device) == device[4]

\* the rows of user_devices, in the order of their ids
DeviceRows(name) == {i \in DOMAIN user_devices : user_devices[i].device_name = name}
\* UNIQUE(user_id, scenario_code, device_name)
DeviceConflict(rows, name) == \E i \in DOMAIN rows : rows[i].device_name = name
RowsAt(mountPoint) ==
  {i \in DOMAIN user_devices : user_devices[i].mount_point = mountPoint}
\* db.get: the first row that matches, or none
FirstRow(rows) ==
  IF rows = {} THEN Null
  ELSE user_devices[CHOOSE i \in rows : \A j \in rows : i <= j]
\* ORDER BY created_at DESC LIMIT 1
LatestRow ==
  IF user_devices = <<>> THEN Null ELSE user_devices[Len(user_devices)]

\* mountDeviceContentToVFS: the directories down to the mount point are
\* created where missing and every entry of the content becomes a file
Graft(tree, mountPoint, content) ==
  LET parts == Segments(mountPoint)
      made == MakeDirs(tree, parts, Len(parts))
      files == {parts \o <<n>> : n \in DOMAIN content}
  IN [q \in files |-> FileNode(content[q[Len(q)]])]
     @@ [q \in {x \in DOMAIN made : \A e \in files : ~Under(e, x)} |-> made[q]]

IdleDev ==
  [pc |-> "idle", op |-> None, name |-> None, device |-> Null,
   mountPoint |-> Null, content |-> Null, record |-> Null,
   status |-> 0, message |-> None]
SetDev(r, rec) == dev' = [dev EXCEPT ![r] = rec]
DevAt(r, op, pc) == dev[r].op = op /\ dev[r].pc = pc
FreeDev(r) == dev[r].pc = "idle" /\ \A x \in Reqs : x < r => dev[x].pc # "idle"
DevResponded(q, status, message) ==
  [q EXCEPT !.pc = "resp", !.status = status, !.message = message]
DevFrame ==
  UNCHANGED <<scenariosData, dbVars, req, scenarioData, currentScenario,
              taskIndex, isScenarioActive, completedTaskIds,
              processingTaskIds, completedScenarioIds, sessionCompleted,
              refreshPending, emitted, advanced, hudVars, con, cwd, exec,
              localRoot, term, registry, auxVars>>

\* devicesAPI.attachDevice: POST /api/devices/attach
AttachSent(r, name, content) ==
  /\ FreeDev(r)
  /\ SetDev(r, [IdleDev EXCEPT !.pc = "find", !.op = "attach",
                               !.name = name, !.content = content])
  /\ UNCHANGED <<vfs, user_devices>> /\ DevFrame

\* lines 39-42: SELECT the existing row
AttachFind(r) ==
  /\ DevAt(r, "attach", "find")
  /\ SetDev(r, [dev[r] EXCEPT !.pc = "write",
                !.record = FirstRow(DeviceRows(dev[r].name))])
  /\ UNCHANGED <<vfs, user_devices>> /\ DevFrame

\* the write of attach as INSERT OR REPLACE: the row is deleted and a new,
\* unmounted one is inserted
AttachWriteReplacing(r) ==
  /\ DevAt(r, "attach", "write")
  /\ user_devices' =
       Append(SelectSeq(user_devices,
                        LAMBDA row : row.device_name # dev[r].name),
              [device_name |-> dev[r].name, mounted |-> 0,
               mount_point |-> Null, device_data |-> dev[r].content])
  /\ SetDev(r, [dev[r] EXCEPT !.pc = "get"])
  /\ UNCHANGED vfs /\ DevFrame

\* lines 44-60: UPDATE the row found (type, size, partition and data; it
\* matches no row if the row is gone), or INSERT a new, unmounted one
AttachWrite(r) ==
  /\ DevAt(r, "attach", "write")
  /\ LET q == dev[r] IN
     IF q.record # Null
     THEN /\ user_devices' =
               [i \in DOMAIN user_devices |->
                  IF user_devices[i].device_name = q.name
                  THEN [user_devices[i] EXCEPT !.device_data = q.content]
                  ELSE user_devices[i]]
          /\ SetDev(r, [q EXCEPT !.pc = "get"])
     ELSE IF DeviceConflict(user_devices, q.name)
     THEN /\ SetDev(r, DevResponded(q, 500, "Failed to attach device"))
          /\ UNCHANGED user_devices
     ELSE /\ user_devices' =
               Append(user_devices,
                      [device_name |-> q.name, mounted |-> 0,
                       mount_point |-> Null, device_data |-> q.content])
          /\ SetDev(r, [q EXCEPT !.pc = "get"])
  /\ UNCHANGED vfs /\ DevFrame

\* lines 63-78: SELECT the row and answer with it
AttachGet(r) ==
  /\ DevAt(r, "attach", "get")
  /\ SetDev(r, DevResponded([dev[r] EXCEPT
                  !.record = FirstRow(DeviceRows(dev[r].name))],
                200, "device"))
  /\ UNCHANGED <<vfs, user_devices>> /\ DevFrame

\* devicesAPI.mountDevice: POST /api/devices/mount
MountSent(r, device, mountPoint) ==
  /\ FreeDev(r)
  /\ SetDev(r, [IdleDev EXCEPT !.pc = "find", !.op = "mount",
                               !.device = device, !.mountPoint = mountPoint])
  /\ UNCHANGED <<vfs, user_devices>> /\ DevFrame

\* lines 145-168: the row a mount request is about
MountTarget(q) ==
  IF IsForensicImage(q.device) THEN LatestRow
  ELSE FirstRow(DeviceRows(DeviceNameOf(q.device)))

\* the read of mount without the check of lines 174-180
MountFindUnchecked(r) ==
  /\ DevAt(r, "mount", "find")
  /\ LET deviceRecord == MountTarget(dev[r]) IN
     SetDev(r, IF deviceRecord = Null
               THEN DevResponded(dev[r], 404, "Device not found")
               ELSE [dev[r] EXCEPT !.pc = "graft", !.record = deviceRecord,
                                   !.name = deviceRecord.device_name])
  /\ UNCHANGED <<vfs, user_devices>> /\ DevFrame

\* lines 142-180: the row of the device is read; without a row the answer
\* is 404, with a mounted row it is the "already mounted" message for the
\* same mount point and 400 for another
MountFind(r) ==
  /\ DevAt(r, "mount", "find")
  /\ LET q == dev[r]
         deviceRecord == MountTarget(q)
         found == [q EXCEPT !.record = deviceRecord,
                            !.name = IF deviceRecord = Null THEN None
                                     ELSE deviceRecord.device_name]
     IN SetDev(r,
          IF deviceRecord = Null
          THEN DevResponded(found, 404, "Device not found")
          ELSE IF deviceRecord.mounted = 1
          THEN IF deviceRecord.mount_point = q.mountPoint
               THEN DevResponded(found, 200, "Device already mounted")
               ELSE DevResponded(found, 400, "Device already mounted")
          ELSE [found EXCEPT !.pc = "graft"])
  /\ UNCHANGED <<vfs, user_devices>> /\ DevFrame

\* lines 182-186: the content read with the row is mounted to the VFS
MountGraft(r) ==
  /\ DevAt(r, "mount", "graft")
  /\ vfs' = [vfs EXCEPT !.tree = Graft(@, dev[r].mountPoint,
                                       dev[r].record.device_data)]
  /\ SetDev(r, [dev[r] EXCEPT !.pc = "write"])
  /\ UNCHANGED user_devices /\ DevFrame

\* lines 188-205: UPDATE mounted = 1 and the mount point, then the answer
MountWrite(r) ==
  /\ DevAt(r, "mount", "write")
  /\ user_devices' =
       [i \in DOMAIN user_devices |->
          IF user_devices[i].device_name = dev[r].name
          THEN [user_devices[i] EXCEPT !.mounted = 1,
                                       !.mount_point = dev[r].mountPoint]
          ELSE user_devices[i]]
  /\ SetDev(r, DevResponded(dev[r], 200, "Mounted"))
  /\ UNCHANGED vfs /\ DevFrame

\* devicesAPI.unmountDevice: POST /api/devices/unmount
UnmountSent(r, mountPoint) ==
  /\ FreeDev(r)
  /\ SetDev(r, [IdleDev EXCEPT !.pc = "find", !.op = "unmount",
                               !.mountPoint = mountPoint])
  /\ UNCHANGED <<vfs, user_devices>> /\ DevFrame

\* lines 228-236: the row mounted at the mount point, or 404
UnmountFind(r) ==
  /\ DevAt(r, "unmount", "find")
  /\ LET deviceRecord == FirstRow(RowsAt(dev[r].mountPoint)) IN
     SetDev(r, IF deviceRecord = Null
               THEN DevResponded(dev[r], 404, "No device mounted at that mount point")
               ELSE [dev[r] EXCEPT !.pc = "write", !.record = deviceRecord])
  /\ UNCHANGED <<vfs, user_devices>> /\ DevFrame

\* the write of unmount that also takes the mount point out of the tree
UnmountWriteClearing(r) ==
  /\ DevAt(r, "unmount", "write")
  /\ user_devices' =
       [i \in DOMAIN user_devices |->
          IF user_devices[i].mount_point = dev[r].mountPoint
          THEN [user_devices[i] EXCEPT !.mounted = 0, !.mount_point = Null]
          ELSE user_devices[i]]
  /\ vfs' = [vfs EXCEPT !.tree = RemoveEntry(@, Segments(dev[r].mountPoint))]
  /\ SetDev(r, DevResponded(dev[r], 200, "Unmounted"))
  /\ DevFrame

\* lines 238-251: UPDATE mounted = 0, mount_point = NULL of the rows at the
\* mount point, then the answer
UnmountWrite(r) ==
  /\ DevAt(r, "unmount", "write")
  /\ user_devices' =
       [i \in DOMAIN user_devices |->
          IF user_devices[i].mount_point = dev[r].mountPoint
          THEN [user_devices[i] EXCEPT !.mounted = 0, !.mount_point = Null]
          ELSE user_devices[i]]
  /\ SetDev(r, DevResponded(dev[r], 200, "Unmounted"))
  /\ UNCHANGED vfs /\ DevFrame

\* the catch blocks (79-82, 206-209, 252-255): an awaited call rejects
DevFailed(r) ==
  /\ dev[r].pc \in {"find", "graft", "write", "get"}
  /\ SetDev(r, DevResponded(dev[r], 500, "Failed"))
  /\ UNCHANGED <<vfs, user_devices>> /\ DevFrame

\* the client has the answer
DevResult(r) ==
  /\ dev[r].pc = "resp"
  /\ SetDev(r, IdleDev)
  /\ UNCHANGED <<vfs, user_devices>> /\ DevFrame

\* ------------------------- POST /api/console/execute, call by call
\* A console request carries the line, what parseCommand made of it, the
\* working directory read with the tree, and what executeCommand returned.
IdleExec ==
  [pc |-> "idle", line |-> <<>>, cmd |-> "", args |-> <<>>, cwd |-> <<>>,
   result |-> Null, status |-> 0]
SetExec(r, rec) == exec' = [exec EXCEPT ![r] = rec]
FreeExec(r) ==
  exec[r].pc = "idle" /\ \A x \in Reqs : x < r => exec[x].pc # "idle"
ExecFrame ==
  UNCHANGED <<scenariosData, dbVars, req, scenarioData, currentScenario,
              taskIndex, isScenarioActive, completedTaskIds,
              processingTaskIds, completedScenarioIds, sessionCompleted,
              refreshPending, emitted, advanced, hudVars, con, cwd,
              user_devices, dev, localRoot, term, registry, auxVars>>

\* consoleAPI.execute(scenarioCode, line)
ExecSent(r, line) ==
  /\ FreeExec(r)
  /\ SetExec(r, [IdleExec EXCEPT !.pc = "get", !.line = line])
  /\ UNCHANGED vfs /\ ExecFrame

\* lines 44-51: getVFS, then the line is parsed and executed on what was
\* read
ExecRun(r) ==
  /\ exec[r].pc = "get"
  /\ LET parsed == parseCommand(exec[r].line)
         result == executeCommand(parsed.cmd, parsed.args, vfs.tree, vfs.cwd)
     IN SetExec(r, [exec[r] EXCEPT
          !.cmd = parsed.cmd, !.args = parsed.args, !.cwd = vfs.cwd,
          !.result = result,
          !.pc = IF result.newCwd # vfs.cwd THEN "cwd"
                 ELSE IF result.vfsModified THEN "vfs" ELSE "log"])
  /\ UNCHANGED vfs /\ ExecFrame

\* lines 54-56: updateVFS({cwd})
ExecUpdateCwd(r) ==
  /\ exec[r].pc = "cwd"
  /\ vfs' = [vfs EXCEPT !.cwd = exec[r].result.newCwd]
  /\ SetExec(r, [exec[r] EXCEPT
       !.pc = IF exec[r].result.vfsModified THEN "vfs" ELSE "log"])
  /\ ExecFrame

\* lines 59-61: updateVFS({vfs}) with the tree this request has read and
\* changed
ExecUpdateVfs(r) ==
  /\ exec[r].pc = "vfs"
  /\ vfs' = [vfs EXCEPT !.tree = exec[r].result.vfs]
  /\ SetExec(r, [exec[r] EXCEPT !.pc = "log"])
  /\ ExecFrame

\* lines 64-80: the event is logged and the answer sent
ExecRespond(r) ==
  /\ exec[r].pc = "log"
  /\ SetExec(r, [exec[r] EXCEPT !.pc = "resp", !.status = 200])
  /\ UNCHANGED vfs /\ ExecFrame

\* lines 81-84: an awaited call rejects
ExecFailed(r) ==
  /\ exec[r].pc \in {"get", "cwd", "vfs", "log"}
  /\ SetExec(r, [exec[r] EXCEPT !.pc = "resp", !.status = 500])
  /\ UNCHANGED vfs /\ ExecFrame

\* -------------------------------- the terminal: CommandExecutor.execute
EmptyTree == (<<>> :> DirNode)
vfsCommands == {"ls", "cd", "pwd", "cat", "grep", "mkdir", "touch", "rm",
                "sha256sum", "dd", "cp"}

\* VFSManager.ensureDirAndLeaf, lines 120-131
ensureDirAndLeaf(tree, path) ==
  LET parts == Segments(resolvePath(path, <<"/">>)) IN
  IF parts = <<>> THEN Null
  ELSE IF \A i \in 1..(Len(parts) - 1) :
            /\ SubSeq(parts, 1, i) \in DOMAIN tree
            /\ tree[SubSeq(parts, 1, i)].type = "dir"
  THEN [dirNode |-> SubSeq(parts, 1, Len(parts) - 1),
        leaf |-> parts[Len(parts)]]
  ELSE Null

\* args.join(' ')
RECURSIVE JoinArgs(_)
JoinArgs(args) ==
  IF args = <<>> THEN ""
  ELSE IF Len(args) = 1 THEN Text(args[1])
  ELSE Text(args[1]) \o " " \o JoinArgs(Tail(args))

\* a redirection that makes the directories missing on the way
handleRedirectionCreating(output, redir, tree, dir) ==
  IF ~redir.on THEN [root |-> tree, message |-> output]
  ELSE LET at == Segments(resolvePath(redir.path, dir))
           made == MakeDirs(tree, at, Len(at) - 1)
       IN [root |-> PutNode(made, at, FileNode(output \o "\n")),
           message |-> ""]

NoDestination == "Error: destination directory does not exist."
\* CommandExecutor.handleRedirection, lines 914-931: the local tree and the
\* line written to the terminal
handleRedirection(output, redir, tree, dir) ==
  IF ~redir.on THEN [root |-> tree, message |-> output]
  ELSE LET slot == ensureDirAndLeaf(tree, resolvePath(redir.path, dir)) IN
       IF slot = Null THEN [root |-> tree, message |-> NoDestination]
       ELSE LET at == Append(slot.dirNode, slot.leaf)
                prev == IF at \in DOMAIN tree /\ tree[at].type = "file"
                        THEN tree[at].content ELSE ""
            IN [root |-> PutNode(tree, at,
                           FileNode(IF redir.append
                                    THEN prev \o output \o "\n"
                                    ELSE output \o "\n")),
                message |-> ""]

\* VFSManager.mountDeviceContent, lines 232-259 (window.updateVFSWithDevice)
mountDeviceContent(mountPath, content) ==
  /\ localRoot' = Graft(localRoot, mountPath, content)
  /\ localRoot' # localRoot
  /\ UNCHANGED <<scenariosData, dbVars, req, scenarioData, currentScenario,
                 taskIndex, isScenarioActive, completedTaskIds,
                 processingTaskIds, completedScenarioIds, sessionCompleted,
                 refreshPending, emitted, advanced, hudVars, con, cwd,
                 vfs, user_devices, dev, exec, term, registry, auxVars>>

\* the terminal runs one line at a time: the line, the slot of its console
\* request, and what the last line wrote to the terminal
IdleTerm == [pc |-> "idle", line |-> <<>>, slot |-> 0, message |-> ""]
TermFrame ==
  UNCHANGED <<scenariosData, dbVars, scenarioData, currentScenario,
              taskIndex, isScenarioActive, completedTaskIds,
              processingTaskIds, completedScenarioIds, sessionCompleted,
              refreshPending, emitted, advanced, hudVars, con,
              user_devices, dev, registry, auxVars>>

\* TaskManager.checkCompletion after the command, and notifyCompletion up
\* to the request
CompletionChecked(cmd, args, dir) ==
  IF /\ currentTask # None
     /\ checkCompletion(ClientDef(currentTask), cmd, args, dir)
     /\ \E r \in Reqs : Free(r)
  THEN \E r \in Reqs :
         /\ Free(r)
         /\ Submit(r, "cmd", currentTask,
                   Answer(FALSE, ClientDef(currentTask).checkCommand,
                          ClientDef(currentTask).checkArgs), NoTime)
  ELSE UNCHANGED req

\* lines 827-846 for a command of the server, 884-912 for a local one:
\* a command of vfsCommands is sent as the line typed when a scenario is
\* open; echo is run here and its output redirected; the rest is unknown
LineTyped(line) ==
  /\ term.pc = "idle"
  /\ LET parsed == Parse(line) IN
     /\ parsed.cmd # ""
     /\ IF parsed.cmd \in vfsCommands /\ currentScenario # None
        THEN /\ \E r \in Reqs :
                  /\ FreeExec(r)
                  /\ SetExec(r, [IdleExec EXCEPT !.pc = "get", !.line = line])
                  /\ term' = [IdleTerm EXCEPT !.pc = "sent", !.line = line,
                                              !.slot = r]
             /\ UNCHANGED <<localRoot, req>>
        ELSE IF parsed.cmd \in DOMAIN registry.commands
        THEN LET handler == registry.commands[parsed.cmd]
                 out == IF handler.custom THEN handler.output
                        ELSE IF parsed.cmd = "echo" THEN JoinArgs(parsed.args)
                        ELSE ""
                 done == handleRedirection(out, parsed.redir, localRoot, cwd)
             IN /\ localRoot' = done.root
                /\ term' = [IdleTerm EXCEPT !.line = line,
                                            !.message = done.message]
                /\ CompletionChecked(parsed.cmd, parsed.args, cwd)
                /\ UNCHANGED exec
        ELSE /\ term' = [IdleTerm EXCEPT !.line = line,
                                         !.message = "Unknown command"]
             /\ UNCHANGED <<localRoot, req, exec>>
  /\ UNCHANGED <<cwd, vfs>> /\ TermFrame

\* lines 846-881: the answer of the console route.  The working directory
\* follows promptPath; an error is written; the output is written or
\* redirected; without an error the task is checked with the command and
\* arguments the terminal parsed.  A rejected request is written as an
\* error.
TermResult ==
  /\ term.pc = "sent"
  /\ exec[term.slot].pc = "resp"
  /\ LET q == exec[term.slot]
         parsed == Parse(term.line)
     IN /\ SetExec(term.slot, IdleExec)
        /\ IF q.status # 200
           THEN /\ term' = [IdleTerm EXCEPT !.line = term.line,
                                            !.message = "Error"]
                /\ UNCHANGED <<cwd, localRoot, req>>
           ELSE
           /\ cwd' = q.result.newCwd
           /\ IF q.result.error # None
              THEN /\ term' = [IdleTerm EXCEPT !.line = term.line,
                                               !.message = q.result.error]
                   /\ UNCHANGED <<localRoot, req>>
              ELSE LET done == handleRedirection(q.result.output,
                                 parsed.redir, localRoot, q.result.newCwd)
                   IN /\ localRoot' = done.root
                      /\ term' = [IdleTerm EXCEPT !.line = term.line,
                                                  !.message = done.message]
                      /\ CompletionChecked(parsed.cmd, parsed.args,
                                           q.result.newCwd)
  /\ UNCHANGED vfs /\ TermFrame

\* --------------- hints: taskHud.js handleHintClick and the hint route
\* A hint request carries the client handler's locals (isUnlocked,
\* hintCost), the server handler's (required = the task's hintCost,
\* taskTotal, current = currentPoints, stats = the user_stats row read by
\* trackHintUsage) and the response.
IdleHint ==
  [pc |-> "idle", task |-> None, isUnlocked |-> FALSE, hintCost |-> 0,
   required |-> 0, taskTotal |-> 0, current |-> 0, stats |-> NoStats,
   status |-> None]

SetHint(h, rec) == hintReq' = [hintReq EXCEPT ![h] = rec]
HintAt(h, pc) == hintReq[h].pc = pc
FreeHint(h) ==
  hintReq[h].pc = "idle" /\ \A x \in Reqs : x < h => hintReq[x].pc # "idle"

\* the response of the route: 200 {hint, hintCost}, 400 'Insufficient
\* points' {required, current}, 404 or 500
HintResponded(q, status) ==
  [IdleHint EXCEPT !.pc = "resp", !.task = q.task,
                   !.isUnlocked = q.isUnlocked, !.hintCost = q.hintCost,
                   !.required = q.required, !.current = q.current,
                   !.status = status]

\* handleHintClick, lines 337-356: nothing for a hint already shown; an
\* unlocked hint costs nothing; the points the client shows must cover
\* the cost; then the request is sent
HintClicked(h, t) ==
  /\ FreeHint(h)
  /\ scenarioData # None
  /\ ClientDef(t).hasHint
  /\ t \notin hintShown
  /\ user_stats.hints[ScenarioOf(t)] < MaxTracked
  /\ LET isUnlocked == t \in unlockedHints
         hintCost == IF isUnlocked THEN 0 ELSE ClientDef(t).hintCost
     IN /\ ~(~isUnlocked /\ points < hintCost)
        /\ SetHint(h, [IdleHint EXCEPT !.pc = "net", !.task = t,
                                       !.isUnlocked = isUnlocked,
                                       !.hintCost = hintCost])
  /\ UNCHANGED <<scenariosData, dbVars, req, scenarioData, currentScenario,
                 taskIndex, isScenarioActive, completedTaskIds,
                 processingTaskIds, completedScenarioIds, sessionCompleted,
                 refreshPending, emitted, advanced, points, hintShown,
                 unlockedHints, consoleVars>>

HintUnchanged ==
  UNCHANGED <<scenariosData, req, scenarioData, currentScenario,
              taskIndex, isScenarioActive, completedTaskIds,
              processingTaskIds, completedScenarioIds, sessionCompleted,
              refreshPending, emitted, advanced, points, hintShown,
              unlockedHints, consoleVars>>

\* route, lines 668-695: the task of scenariosData; no hint is a 404; a
\* free hint skips the points query
HintBegin(h) ==
  /\ HintAt(h, "net")
  /\ LET q == hintReq[h]
         task == TaskDef(scenariosData, q.task)
     IN IF ~task.hint
        THEN SetHint(h, HintResponded(q, "err"))
        ELSE SetHint(h, [q EXCEPT !.required = task.hintCost,
                           !.pc = IF task.hintCost > 0 THEN "hSum1"
                                  ELSE "hStats"])
  /\ HintUnchanged /\ UNCHANGED dbVars

\* lines 699-702: SUM(score_awarded)
HintSum1(h) ==
  /\ HintAt(h, "hSum1")
  /\ SetHint(h, [hintReq[h] EXCEPT !.pc = "hSum2",
                    !.taskTotal = TaskScoreTotal(task_completions)])
  /\ HintUnchanged /\ UNCHANGED dbVars

\* lines 703-722: SUM(points_awarded), currentPoints against hintCost
HintSum2(h) ==
  /\ HintAt(h, "hSum2")
  /\ LET q == hintReq[h]
         currentPoints == q.taskTotal + BadgePointsTotal(badge_points_awarded)
     IN IF currentPoints < q.required
        THEN SetHint(h, HintResponded([q EXCEPT !.current = currentPoints],
                                      "insufficient"))
        ELSE SetHint(h, [q EXCEPT !.pc = "hStats", !.current = currentPoints])
  /\ HintUnchanged /\ UNCHANGED dbVars

\* trackHintUsage, line 463: SELECT the user_stats row
HintStats(h) ==
  /\ HintAt(h, "hStats")
  /\ SetHint(h, [hintReq[h] EXCEPT !.stats = user_stats,
                    !.pc = IF user_stats.row THEN "hUpdate" ELSE "hInsert"])
  /\ HintUnchanged /\ UNCHANGED dbVars

\* trackHintUsage, lines 465-472: INSERT INTO user_stats (user_id PRIMARY
\* KEY) with { [scenarioCode]: 1 }; then the route answers with the hint
HintInsertStats(h) ==
  /\ HintAt(h, "hInsert")
  /\ LET q == hintReq[h] IN
     IF user_stats.row
     THEN SetHint(h, HintResponded(q, "err")) /\ UNCHANGED user_stats
     ELSE /\ SetHint(h, HintResponded(q, "ok"))
          /\ user_stats' = [NoStats EXCEPT !.row = TRUE,
                                           !.hints[ScenarioOf(q.task)] = 1]
  /\ HintUnchanged
  /\ UNCHANGED <<scenarioRows, taskRows, badgeRows, task_completions,
                 user_badges, badge_points_awarded>>

\* trackHintUsage, lines 474-491: the JSON that was read, with this
\* scenario's count incremented, is written back; then the route answers
HintUpdateStats(h) ==
  /\ HintAt(h, "hUpdate")
  /\ LET q == hintReq[h] IN
     /\ SetHint(h, HintResponded(q, "ok"))
     /\ user_stats' = [user_stats EXCEPT
          !.hints = [q.stats.hints EXCEPT ![ScenarioOf(q.task)] = @ + 1]]
  /\ HintUnchanged
  /\ UNCHANGED <<scenarioRows, taskRows, badgeRows, task_completions,
                 user_badges, badge_points_awarded>>

HintPcs == {"hSum1", "hSum2", "hStats", "hInsert", "hUpdate"}

\* lines 740-743: an awaited database call rejects, the catch answers 500
HintFailed(h) ==
  /\ hintReq[h].pc \in HintPcs
  /\ SetHint(h, HintResponded(hintReq[h], "err"))
  /\ HintUnchanged /\ UNCHANGED dbVars

\* PointsBadge.subtractPoints (pointsBadge.js): refuses to go below zero
CanSubtract(p, cost) == p >= cost

\* handleHintClick, lines 358-388: a hint that arrived is paid for unless
\* it was unlocked (the route never sends alreadyUnlocked), then marked
\* shown and unlocked; an error only shows a toast
HintResult(h) ==
  /\ HintAt(h, "resp")
  /\ SetHint(h, IdleHint)
  /\ LET q == hintReq[h]
         pays == ~q.isUnlocked
     IN IF q.status # "ok"
        THEN UNCHANGED <<points, hintShown, unlockedHints>>
        ELSE IF pays /\ ~CanSubtract(points, q.hintCost)
        THEN UNCHANGED <<points, hintShown, unlockedHints>>
        ELSE /\ points' = IF pays THEN points - q.hintCost ELSE points
             /\ hintShown' = hintShown \cup {q.task}
             /\ unlockedHints' = unlockedHints \cup {q.task}
  /\ UNCHANGED <<scenariosData, dbVars, req, scenarioData, currentScenario,
                 taskIndex, isScenarioActive, completedTaskIds,
                 processingTaskIds, completedScenarioIds, sessionCompleted,
                 refreshPending, emitted, advanced, consoleVars>>

\* TaskHud.reset, lines 762-772: the shown hints are forgotten, the
\* unlocked ones are not
HudReset ==
  /\ hintShown # {}
  /\ hintShown' = {}
  /\ UNCHANGED <<scenariosData, dbVars, req, scenarioData, currentScenario,
                 taskIndex, isScenarioActive, completedTaskIds,
                 processingTaskIds, completedScenarioIds, sessionCompleted,
                 refreshPending, emitted, advanced, hintReq, points,
                 unlockedHints, consoleVars>>

\* navigation.js syncTotalScore (270-296) over the leaderboard route
\* (777-812): the points shown become the user's totalScore
syncTotalScore ==
  /\ points # DbTotal
  /\ points' = DbTotal
  /\ UNCHANGED <<scenariosData, dbVars, req, scenarioData, currentScenario,
                 taskIndex, isScenarioActive, completedTaskIds,
                 processingTaskIds, completedScenarioIds, sessionCompleted,
                 refreshPending, emitted, advanced, hintReq, hintShown,
                 unlockedHints, consoleVars>>

\* ------------------- the submit handler run from request to response
\* where a rejected database call ends the handler: nowhere, before the
\* completion is inserted, or after it and before the badge evaluation
FailPoints == {"none", "early", "late"}

\* the badges the evaluation reaches for scenario s, in the order of
\* lines 196-207: scenario badge, Speed Runner, Hint-Free Expert
BadgeCandidates(s, completions, rows, stats) ==
  LET timed == TimedCompletions(completions, s) IN
  (IF ScenarioBadge(s) # None THEN <<ScenarioBadge(s)>> ELSE <<>>)
  \o (IF Len(timed) > 0
         /\ SumField(timed, "time_ms") <= SPEED_RUNNER_THRESHOLD_MS
         /\ SpeedRunner \in rows
      THEN <<SpeedRunner>> ELSE <<>>)
  \o (IF stats.hints[s] = 0 /\ HintFree \in rows
      THEN <<HintFree>> ELSE <<>>)

PointsRows(bs) ==
  [i \in DOMAIN bs |-> [badge |-> bs[i], points_awarded |-> BadgeRowPoints(bs[i])]]

\* router.post('/:taskId/submit'), lines 55-245, with no other request
\* between its awaited calls
SubmitHandled(r, fail) ==
  /\ At(r, "net")
  /\ LET q == req[r]
         s == ScenarioOf(q.task)
         def == TaskDef(scenariosData, q.task)
         existing == ExistingCompletion(task_completions, q.task)
         ok == validateAnswer(def, q.answer)
         before == DbTotal
         inserted == Append(task_completions,
                       [task |-> q.task, score_awarded |-> def.points,
                        time_ms |-> q.time])
         done == CompletedCount(inserted, s) = Len(ScenarioTasks(s))
         new == SelectSeq(BadgeCandidates(s, inserted, badgeRows, user_stats),
                          LAMBDA b : ~HasBadge(user_badges, b))
         pts == SumField(PointsRows(new), "points_awarded")
         Answer200(qq, total, p) == Responded([qq EXCEPT !.seen = {total}], total, p)
     IN
     IF fail = "early"
     THEN /\ SetReq(r, Failed(q))
          /\ UNCHANGED dbVars
     ELSE
     /\ scenarioRows' = scenarioRows \cup {s}
     /\ taskRows' = taskRows \cup {q.task}
     /\ IF existing
        THEN /\ SetReq(r, Answer200([q EXCEPT !.correct = TRUE,
                 !.already = TRUE,
                 !.score = ExistingScore(task_completions, q.task)], before, 0))
             /\ UNCHANGED <<badgeRows, task_completions, user_badges,
                            badge_points_awarded, user_stats>>
        ELSE IF ~ok
        THEN /\ SetReq(r, Answer200([q EXCEPT !.correct = FALSE], before, 0))
             /\ UNCHANGED <<badgeRows, task_completions, user_badges,
                            badge_points_awarded, user_stats>>
        ELSE
        /\ task_completions' = inserted
        /\ IF fail = "late"
           THEN /\ SetReq(r, Failed(q))
                /\ UNCHANGED <<badgeRows, user_badges, badge_points_awarded,
                               user_stats>>
           ELSE IF ~done
           THEN /\ SetReq(r, Answer200([q EXCEPT !.correct = TRUE,
                       !.score = def.points], before + def.points, 0))
                /\ UNCHANGED <<badgeRows, user_badges, badge_points_awarded,
                               user_stats>>
           ELSE /\ badgeRows' = badgeRows \cup
                       (IF ScenarioBadge(s) # None THEN {ScenarioBadge(s)} ELSE {})
                /\ user_stats' = [user_stats EXCEPT !.row = TRUE]
                /\ user_badges' = user_badges \o new
                /\ badge_points_awarded' = badge_points_awarded \o PointsRows(new)
                /\ SetReq(r, Answer200([q EXCEPT !.correct = TRUE,
                       !.score = def.points,
                       !.unlocked = {new[i] : i \in DOMAIN new}],
                       before + def.points + pts, pts))
  /\ UNCHANGED <<scenariosData, clientVars>>

\* ------------------------------------ routes/leaderboard.js (part_006)
\* line 770
CACHE_TTL == 10000
\* the clock advances by TickMs up to MaxClock
TickMs == 2500
MaxClock == 12500
\* The rows of the leaderboard query for the model's one user, with the
\* time the database computed them.
Leaderboard(total, at) == [totalScore |-> total, computedAt |-> at]
\* const cache, lines 765-768
EmptyCache == [data |-> Null, timestamp |-> 0]
IdleBoard ==
  [pc |-> "idle", now |-> 0, leaderboard |-> Null, cached |-> FALSE,
   status |-> 0]
AuxFrame ==
  UNCHANGED <<scenariosData, dbVars, req, scenarioData, currentScenario,
              taskIndex, isScenarioActive, completedTaskIds,
              processingTaskIds, completedScenarioIds, sessionCompleted,
              refreshPending, emitted, advanced, hudVars, con, cwd,
              vfs, user_devices, dev, exec, localRoot, term, registry>>
\* the test of line 781 with a cache that is valid for the whole of its
\* last millisecond
CacheValidInclusive(c, t) == c.data # Null /\ (t - c.timestamp) <= CACHE_TTL
\* the test of line 781
CacheValid(c, t) == c.data # Null /\ (t - c.timestamp) < CACHE_TTL
\* router.get('/'), lines 777-783: the time of the request is read, and
\* what the cache holds is returned while it is valid
LeaderboardGet(r) ==
  /\ lb[r].pc \in {"idle", "done"}
  /\ lb' = [lb EXCEPT ![r] =
       IF CacheValid(cache, now)
       THEN [pc |-> "done", now |-> now, leaderboard |-> cache.data,
             cached |-> TRUE, status |-> 200]
       ELSE [IdleBoard EXCEPT !.pc = "query", !.now = now]]
  /\ UNCHANGED <<cache, now, session>> /\ AuxFrame
\* lines 786-806: await db.all(...)
LeaderboardQuery(r) ==
  /\ lb[r].pc = "query"
  /\ lb' = [lb EXCEPT ![r].pc = "store",
                      ![r].leaderboard = Leaderboard(DbTotal, now)]
  /\ UNCHANGED <<cache, now, session>> /\ AuxFrame
\* lines 808-812: the cache takes the rows with the time of the request
LeaderboardStore(r) ==
  /\ lb[r].pc = "store"
  /\ cache' = [data |-> lb[r].leaderboard, timestamp |-> lb[r].now]
  /\ lb' = [lb EXCEPT ![r].pc = "done", ![r].status = 200]
  /\ UNCHANGED <<now, session>> /\ AuxFrame
\* lines 813-816: the query throws
LeaderboardFailed(r) ==
  /\ lb[r].pc = "query"
  /\ lb' = [lb EXCEPT ![r].pc = "done", ![r].status = 500]
  /\ UNCHANGED <<cache, now, session>> /\ AuxFrame
\* Date.now() moves on
Tick ==
  /\ now + TickMs <= MaxClock
  /\ now' = now + TickMs
  /\ UNCHANGED <<cache, lb, session>> /\ AuxFrame

\* --------------------------------------------------- client: session.js
\* initSession is called at most MaxCalls times
MaxCalls == 3
Promises == 1..MaxCalls
\* the promise of an initialisation: its call of authAPI.getMe, whether a
\* user came back, and whether a logout has completed since it began
IdlePromise == [pc |-> "free", user |-> FALSE, stale |-> FALSE]
IdleLogin == [pc |-> "idle", stale |-> FALSE]
\* sessionState, lines 15-22, with no request in flight and, on the
\* server, no session behind the cookie
FreshSession ==
  [user |-> Null, isAuthenticated |-> FALSE, isLoading |-> TRUE,
   initPromise |-> 0, initialized |-> FALSE,
   calls |-> 0, returned |-> 0,
   promise |-> [p \in Promises |-> IdlePromise],
   login |-> IdleLogin, logout |-> "idle", cookie |-> FALSE]
TheUser == [id |-> 1]
SessionFrame == UNCHANGED <<cache, lb, now>> /\ AuxFrame
\* initSession, lines 34-72, up to the await: an initialised session
\* answers at once, a running initialisation hands out its promise, and
\* otherwise a promise is made and the current user is asked for
initSession ==
  /\ session.calls < MaxCalls
  /\ LET p == session.calls + 1
     IN session' =
          IF session.initialized
          THEN [session EXCEPT !.calls = p, !.returned = 0]
          ELSE IF session.initPromise # 0
          THEN [session EXCEPT !.calls = p, !.returned = session.initPromise]
          ELSE [session EXCEPT !.calls = p, !.returned = p,
                               !.initPromise = p, !.isLoading = TRUE,
                               !.promise[p].pc = "getMe"]
  /\ SessionFrame
\* GET /auth/me on the server: the user of the session, or 401
GetMeServed(p) ==
  /\ session.promise[p].pc = "getMe"
  /\ session' = [session EXCEPT !.promise[p].pc = "served",
                                !.promise[p].user = session.cookie]
  /\ SessionFrame
\* initSession, lines 48-65: after the await
InitSettled(p) ==
  /\ session.promise[p].pc = "served"
  /\ session' =
       [session EXCEPT
          !.user = IF session.promise[p].user THEN TheUser ELSE Null,
          !.isAuthenticated = session.promise[p].user,
          !.isLoading = FALSE, !.initialized = TRUE,
          !.promise[p].pc = "settled"]
  /\ SessionFrame
\* login, lines 77-100 (register, 105-128, is the same): the call
LoginCalled ==
  /\ session.login.pc = "idle"
  /\ session' = [session EXCEPT !.login = [IdleLogin EXCEPT !.pc = "login"]]
  /\ SessionFrame
\* POST /auth/login on the server: a session begins, or the login fails
LoginServed(ok) ==
  /\ session.login.pc = "login"
  /\ session' = IF ok
                THEN [session EXCEPT !.login.pc = "getMe", !.cookie = TRUE]
                ELSE [session EXCEPT !.login = IdleLogin]
  /\ SessionFrame
\* lines 80-92: the full user, or the user of the login response
LoginSettled ==
  /\ session.login.pc = "getMe"
  /\ session' = [session EXCEPT !.user = TheUser, !.isAuthenticated = TRUE,
                                !.login = IdleLogin]
  /\ SessionFrame
\* logout, lines 133-136: the call, made by the logout button that
\* navigation.js shows to an authenticated user
LogoutCalled ==
  /\ session.logout = "idle"
  /\ session.isAuthenticated
  /\ session' = [session EXCEPT !.logout = "sent"]
  /\ SessionFrame
\* POST /auth/logout on the server: the session ends, or the request fails
LogoutServed(ok) ==
  /\ session.logout = "sent"
  /\ session' = [session EXCEPT !.logout = "served",
                                !.cookie = IF ok THEN FALSE ELSE @]
  /\ SessionFrame
\* lines 137-171: the finally block; what is in flight began before it
LogoutSettled ==
  /\ session.logout = "served"
  /\ session' =
       [session EXCEPT
          !.user = Null, !.isAuthenticated = FALSE,
          !.initPromise = 0, !.initialized = FALSE,
          !.logout = "idle",
          !.login.stale = (session.login.pc # "idle"),
          !.promise = [p \in Promises |->
             [session.promise[p] EXCEPT
                !.stale = @ \/ session.promise[p].pc \in {"getMe", "served"}]]]
  /\ SessionFrame

\* ------------------------------------------------------ specification
\* initializeBadges (schema): the skill badges exist; the scenario badge
\* of the model's scenario is created on first award
Init ==
  /\ scenariosData = "v1"
  /\ scenarioRows = {} /\ taskRows = {}
  /\ badgeRows = {SpeedRunner, HintFree}
  /\ task_completions = <<>> /\ user_badges = <<>>
  /\ badge_points_awarded = <<>>
  /\ user_stats = NoStats
  /\ req = [r \in Reqs |-> IdleReq]
  /\ scenarioData = None /\ currentScenario = None
  /\ taskIndex = 0 /\ isScenarioActive = FALSE
  /\ completedTaskIds = {} /\ processingTaskIds = {}
  /\ completedScenarioIds = {}
  /\ sessionCompleted = {} /\ refreshPending = FALSE
  /\ emitted = [s \in Scenarios |-> 0]
  /\ advanced = {}
  /\ hintReq = [h \in Reqs |-> IdleHint]
  /\ points = 0 /\ hintShown = {} /\ unlockedHints = {}
  /\ con = IdleCommand /\ cwd = HomePath
  /\ vfs = [tree |-> InitialTree, cwd |-> HomePath]
  /\ user_devices = <<>>
  /\ dev = [r \in Reqs |-> IdleDev]
  /\ exec = [r \in Reqs |-> IdleExec]
  /\ localRoot = EmptyTree
  /\ term = IdleTerm
  /\ registry = BuiltinRegistry
  /\ cache = EmptyCache
  /\ lb = [r \in Reqs |-> IdleBoard]
  /\ now = 0
  /\ session = FreshSession

\* the submit handler's steps that any submission can reach
Handler(r) ==
  \/ SrvBegin(r) \/ SrvInsertScenario(r) \/ SrvGetTask(r) \/ SrvInsertTask(r)
  \/ SrvGetExisting(r) \/ SrvAlreadySum1(r) \/ SrvAlreadySum2(r)
  \/ SrvInsertCompletion(r) \/ SrvSum1(r) \/ SrvSum2(r) \/ SrvCount(r)
  \/ SbGet(r) \/ SbInsertBadge(r) \/ SbHas(r) \/ SbInsertUserBadge(r)
  \/ SbInsertPoints(r)
  \/ SrTimes(r) \/ SrGet(r) \/ SrHas(r) \/ SrInsertUserBadge(r)
  \/ SrInsertPoints(r)
  \/ HfStats(r) \/ HfInsertStats(r) \/ HfGet(r) \/ HfHas(r)
  \/ HfInsertUserBadge(r) \/ HfInsertPoints(r)
  \/ SrvFinal(r) \/ SrvFinalSum2(r) \/ SrvDbError(r)

\* The scoring and badge engine under any caller of the HTTP API: any task
\* id, up to MaxInFlight requests at once, every awaited database call of
\* the handler a step of its own.
NextServer ==
  \/ \E r \in Reqs : Handler(r)
  \/ \E r \in Reqs : \E t \in Tasks, time \in ApiTimes : ApiSubmit(r, t, time)
  \/ \E r \in Reqs : RequestFailed(r)
  \/ \E r \in Reqs : ApiResult(r)
  \/ \E t \in Tasks : GetHint(t)

SpecServer == Init /\ [][NextServer]_vars

\* The client's task pointer.  Its handlers suspend at the request and
\* resume at the response, so several submissions are in flight at once;
\* the server takes each request through the whole handler in one step.
NextClient ==
  \/ \E r \in Reqs : MeshClicked(r)
  \/ \E r \in Reqs : CommandMatched(r)
  \/ \E r \in Reqs : \E text \in FlagTexts : FlagSubmitted(r, text)
  \/ \E r \in Reqs : RequestFailed(r)
  \/ \E r \in Reqs : \E fail \in FailPoints : SubmitHandled(r, fail)
  \/ \E r \in Reqs : MeshResult(r)
  \/ \E r \in Reqs : CommandResult(r)
  \/ \E r \in Reqs : FlagResult(r)
  \/ SaveScenarios("v2")
  \/ \E ok \in BOOLEAN : GetCompletedScenarios(ok)
  \/ loadScenarios \/ loadCompletedScenarios
  \/ \E s \in Scenarios : initTaskSystem(s)
  \/ resetTaskManager

SpecClient == Init /\ [][NextClient]_vars

\* the hint route's steps for a free hint, and for a paid one
HintHandler(h) ==
  \/ HintBegin(h) \/ HintStats(h) \/ HintInsertStats(h)
  \/ HintUpdateStats(h) \/ HintFailed(h)
HintPointsQuery(h) == HintSum1(h) \/ HintSum2(h)

\* a submission of a task of the first scenario, taken by the server
\* through the whole submit handler in one step
Submission ==
  \/ \E t \in TaskSet("S1") : ApiSubmit(1, t, NoTime)
  \/ \E fail \in FailPoints : SubmitHandled(1, fail)
  \/ ApiResult(1)

\* Hint tracking.  The HUD's hint clicks of a user whose shown points stay
\* at zero (only free hints pass the client's check), up to MaxInFlight
\* hint requests at once, every awaited database call of the hint route a
\* step of its own, next to submissions and the scenario editor.
NextHints ==
  \/ \E h \in Reqs : \E t \in Tasks : HintClicked(h, t)
  \/ \E h \in Reqs : HintHandler(h)
  \/ \E h \in Reqs : HintResult(h)
  \/ loadScenarios
  \/ SaveScenarios("v2")
  \/ Submission

SpecHints == Init /\ [][NextHints]_vars

\* Hints and points.  One hint request at a time, free or paid, with the
\* score synchronisation, the HUD reset, submissions and the scenario
\* editor.
NextPoints ==
  \/ \E t \in Tasks : HintClicked(1, t)
  \/ HintHandler(1) \/ HintPointsQuery(1)
  \/ HintResult(1)
  \/ HudReset
  \/ syncTotalScore
  \/ loadScenarios
  \/ SaveScenarios("v2")
  \/ Submission

SpecPoints == Init /\ [][NextPoints]_vars

\* The console.  The learner's cd commands run on the server and are
\* checked against the current task by the client; what matches is
\* submitted and taken by the server through the whole submit handler.
NextConsole ==
  \/ \E args \in TypedArgs : CommandTyped("cd", args)
  \/ \E r \in Reqs : CommandExecuted(r)
  \/ \E r \in Reqs : \E fail \in FailPoints : SubmitHandled(r, fail)
  \/ \E r \in Reqs : CommandResult(r)
  \/ loadScenarios
  \/ \E s \in Scenarios : initTaskSystem(s)

SpecConsole == Init /\ [][NextConsole]_vars

\* The device routes.  Up to MaxInFlight device requests at once, every
\* awaited database call a step.
NextDevices ==
  \/ \E r \in Reqs : \E name \in DeviceNames :
       AttachSent(r, name, DeviceContent(name))
  \/ \E r \in Reqs : AttachFind(r) \/ AttachWrite(r) \/ AttachGet(r)
  \/ \E r \in Reqs :
       \E device \in {DevicePath(n) : n \in DeviceNames} \cup {ForensicImage},
          mountPoint \in MountPoints : MountSent(r, device, mountPoint)
  \/ \E r \in Reqs : MountFind(r) \/ MountGraft(r) \/ MountWrite(r)
  \/ \E r \in Reqs : \E mountPoint \in MountPoints : UnmountSent(r, mountPoint)
  \/ \E r \in Reqs : UnmountFind(r) \/ UnmountWrite(r)
  \/ \E r \in Reqs : DevFailed(r)
  \/ \E r \in Reqs : DevResult(r)

SpecDevices == Init /\ [][NextDevices]_vars

\* Requests that overlap.  Console requests and device requests of one
\* user and scenario, each slot used once, every awaited call a step.
RaceLines ==
  {<<"mkdir", " ", "a">>, <<"mkdir", " ", "b">>, <<"cd", " ", "/">>}
NextRace ==
  \/ \E r \in Reqs : \E line \in RaceLines : ExecSent(r, line)
  \/ \E r \in Reqs : ExecRun(r)
  \/ \E r \in Reqs : ExecUpdateCwd(r)
  \/ \E r \in Reqs : ExecUpdateVfs(r)
  \/ \E r \in Reqs : ExecRespond(r)
  \/ \E r \in Reqs : AttachSent(r, "sdb", DeviceContent("sdb"))
  \/ \E r \in Reqs : AttachFind(r) \/ AttachWrite(r) \/ AttachGet(r)
  \/ \E r \in Reqs : MountSent(r, DevicePath("sdb"), PathM)
  \/ \E r \in Reqs : MountFind(r) \/ MountGraft(r) \/ MountWrite(r)

SpecRace == Init /\ [][NextRace]_vars

\* The commands of the file system, typed into the terminal of an open
\* scenario one at a time and run by the console route call by call.
VfsLines ==
  {<<"mkdir", " ", "a">>, <<"mkdir", " ", "a", "/", "b">>,
   <<"ls", " ", "a">>, <<"rm", " ", "a">>, <<"rm", " ", "a", "/", "b">>,
   <<"mkdir", " ", "c">>, <<"cp", " ", "-r", " ", "a", " ", "c">>,
   <<"cp", " ", "-r", " ", "a", " ", "x", "/", "y">>,
   <<"cd", " ", "a">>, <<"cd">>}
ConsoleRoute(r) ==
  \/ ExecRun(r) \/ ExecUpdateCwd(r) \/ ExecUpdateVfs(r) \/ ExecRespond(r)
  \/ ExecFailed(r)
\* the number of entries the commands may add to the tree of the scenario
MaxNew == 5
Room == Cardinality(DOMAIN vfs.tree) < Cardinality(DOMAIN InitialTree) + MaxNew
VfsLineTyped(line) == Room /\ LineTyped(line)
NextVfs ==
  \/ \E line \in VfsLines : VfsLineTyped(line)
  \/ \E r \in Reqs : ConsoleRoute(r)
  \/ TermResult
  \/ loadScenarios
  \/ \E s \in Scenarios : initTaskSystem(s)

SpecVfs == Init /\ [][NextVfs]_vars

\* The lines of the terminal with a redirection, and the commands around
\* them; a line appends only to files that hold the first line written.
TermLines ==
  {<<"cd", " ", "/">>, <<"mkdir", " ", "d">>,
   <<"echo", " ", "hi", " ", ">", " ", "out.txt">>,
   <<"echo", " ", "bye", " ", ">", ">", " ", "out.txt">>,
   <<"cat", " ", "out.txt">>,
   <<"echo", " ", "hi", " ", ">", " ", "d", "/", "out.txt">>,
   <<"echo", " ", "hi", " ", ">", " ", "/", "mnt", "/", "out.txt">>,
   <<"ls", " ", ">", " ", "out.txt">>,
   <<"pwd", " ", ">", " ", "d", "/", "out.txt">>}
FirstLineOnly ==
  \A p \in DOMAIN localRoot :
    localRoot[p].type = "file" /\ p[Len(p)] = "out.txt"
      => localRoot[p].content = "hi\n"
TermLineTyped(line) ==
  /\ Parse(line).redir.append => FirstLineOnly
  /\ LineTyped(line)
NextTerminal ==
  \/ \E line \in TermLines : TermLineTyped(line)
  \/ \E r \in Reqs : ConsoleRoute(r)
  \/ TermResult
  \/ mountDeviceContent(PathM, DeviceContent("sdb"))
  \/ loadScenarios
  \/ \E s \in Scenarios : initTaskSystem(s)

SpecTerminal == Init /\ [][NextTerminal]_vars

\* Commands that cross: a file on the way of a copy, the working directory
\* removed by its absolute path, and a device mounted beside them.
TreeLines ==
  {<<"mkdir", " ", "a">>, <<"touch", " ", "f">>,
   <<"cp", " ", "-r", " ", "a", " ", "f", "/", "x">>,
   <<"cd", " ", "a">>, <<"rm", " ", "/", "home", "/", "user", "/", "a">>,
   <<"rm", " ", "f">>}
TreeLineTyped(line) == Room /\ LineTyped(line)
NextTree ==
  \/ \E line \in TreeLines : TreeLineTyped(line)
  \/ \E r \in Reqs : ConsoleRoute(r)
  \/ TermResult
  \/ AttachSent(1, "sdb", DeviceContent("sdb"))
  \/ AttachFind(1) \/ AttachWrite(1) \/ AttachGet(1)
  \/ MountSent(1, DevicePath("sdb"), PathM)
  \/ MountFind(1) \/ MountGraft(1) \/ MountWrite(1)
  \/ DevResult(1)
  \/ loadScenarios
  \/ \E s \in Scenarios : initTaskSystem(s)

SpecTree == Init /\ [][NextTree]_vars

\* The command registry.  The editor saves a version whose scenarios
\* declare commands of their own; the learner opens and leaves scenarios
\* and types the commands the console runs itself.
RegistryLines ==
  {<<"volatility">>, <<"netscan">>, <<"strings">>, <<"echo", " ", "hi">>,
   <<"netscan", " ", ">", " ", "out.txt">>}
RegistryLineTyped(line) == LineTyped(line)
NextRegistry ==
  \/ \E line \in RegistryLines : RegistryLineTyped(line)
  \/ SaveScenarios("v3")
  \/ loadScenarios
  \/ \E s \in Scenarios : initTaskSystem(s)
  \/ resetTaskManager

SpecRegistry == Init /\ [][NextRegistry]_vars

\* The scenario editor next to the console.  A version is saved whose
\* scenario declares sha256sum, a command the terminal sends to the
\* server; the learner loads the scenarios, opens one and types.
EditorLines == {<<"sha256sum">>, <<"cd", " ", "a">>, <<"mkdir", " ", "a">>}
EditorLineTyped(line) == Room /\ LineTyped(line)
NextEditor ==
  \/ SaveScenarios("v3")
  \/ \E line \in EditorLines : EditorLineTyped(line)
  \/ \E r \in Reqs : ConsoleRoute(r)
  \/ TermResult
  \/ loadScenarios
  \/ \E s \in Scenarios : initTaskSystem(s)
  \/ resetTaskManager

SpecEditor == Init /\ [][NextEditor]_vars

\* The leaderboard.  Up to MaxInFlight requests at once, the awaited query
\* a step of its own, while the clock moves on and the learner's
\* submissions of the first task change the scores.
NextBoard ==
  \/ \E r \in Reqs : LeaderboardGet(r)
  \/ \E r \in Reqs : LeaderboardQuery(r)
  \/ \E r \in Reqs : LeaderboardStore(r)
  \/ \E r \in Reqs : LeaderboardFailed(r)
  \/ Tick
  \/ ApiSubmit(1, "t1", NoTime)
  \/ \E fail \in FailPoints : SubmitHandled(1, fail)
  \/ ApiResult(1)

SpecBoard == Init /\ [][NextBoard]_vars

\* The session of the client.  Initialisations, a login and a logout, each
\* suspended at its request and resumed at the response.
NextSession ==
  \/ initSession
  \/ \E p \in Promises : GetMeServed(p)
  \/ \E p \in Promises : InitSettled(p)
  \/ LoginCalled
  \/ \E ok \in BOOLEAN : LoginServed(ok)
  \/ LoginSettled
  \/ LogoutCalled
  \/ \E ok \in BOOLEAN : LogoutServed(ok)
  \/ LogoutSettled

SpecSession == Init /\ [][NextSession]_vars

\* ================================================================ claims
\* a handler of request r has ended: the response is written or consumed
Ended(r) == req[r].pc \in {"idle", "resp"}
\* request r has been answered with success: true
Answered(r) == req[r].pc = "resp" /\ req[r].status = "ok"
\* this step writes the response of request r (res.json)
Responds(r) == req[r].pc \in ServerPcs \cup {"net"} /\ req'[r].pc = "resp"
                /\ req'[r].status = "ok"
\* this step is the client handler of r resuming with the response
Resumes(r) == req[r].pc = "resp" /\ req'[r].pc = "idle"
\* rows of task t in task_completions
RowsOfTask(t) == {i \in DOMAIN task_completions : task_completions[i].task = t}

\* C1: of the user's concurrent correct submissions of one task at most
\* one records a completion (is answered as a new completion), and the
\* task never has more than one completion row.
C1_OneCompletionPerTask ==
  /\ \A t \in Tasks : Cardinality(RowsOfTask(t)) <= 1
  /\ \A r1, r2 \in Reqs :
       (r1 # r2 /\ req[r1].task = req[r2].task
        /\ Answered(r1) /\ req[r1].correct /\ ~req[r1].already
        /\ Answered(r2) /\ req[r2].correct)
       => req[r2].already

\* two submissions of one task both found no completion; one has inserted
\* its row and the other stands before its own INSERT
C1_Witness ==
  \E r1, r2 \in Reqs :
    /\ r1 # r2 /\ req[r1].task = req[r2].task
    /\ req[r1].pc = "sum1" /\ req[r2].pc = "insCompl"
    /\ Cardinality(RowsOfTask(req[r1].task)) = 1

\* C2: a submission of a task that is already completed is answered
\* alreadyCompleted with no badge, no points and the newTotalScore the user
\* had before it.
C2_ResubmissionKeepsTotal ==
  [][\A r \in Reqs :
       (Responds(r) /\ req'[r].already)
       => /\ req'[r].total \in req'[r].seen
          /\ req'[r].pts = 0 /\ req'[r].unlocked = {}
          /\ UNCHANGED dbVars]_vars

\* C3: once every submission has ended, a scenario whose last completion
\* is recorded has had its badge evaluation applied: its scenario badge is
\* held and credited.
C3_CompletionWithBadges ==
  \A s \in Scenarios :
    ((\A r \in Reqs : Ended(r))
     /\ ScenarioBadge(s) # None
     /\ CompletedCount(task_completions, s) = Len(ScenarioTasks(s)))
    => /\ HasBadge(user_badges, ScenarioBadge(s))
       /\ ScenarioBadge(s) \in BadgeCodes(badge_points_awarded)

\* C4: the newTotalScore of every successful response is the sum of the
\* completions' score_awarded plus the sum of the badge points_awarded as
\* the database holds them when the response is written.
C4_ResponseTotalIsDbTotal ==
  [][\A r \in Reqs :
       Responds(r) => req'[r].total \in req'[r].seen]_vars

\* C5: the completed tasks of a scenario are a prefix of its task list.
C5_CompletedPrefix ==
  \A s \in Scenarios : \A i, j \in DOMAIN ScenarioTasks(s) :
    (i < j /\ ScenarioTasks(s)[j] \in CompletedTasks(task_completions))
    => ScenarioTasks(s)[i] \in CompletedTasks(task_completions)

\* this step is the client handler of r resuming with an accepted answer
Accepted(r) == Resumes(r) /\ req[r].status = "ok" /\ req[r].correct
\* the client's view of its progress
Progress == <<taskIndex, isScenarioActive, completedTaskIds>>

\* C6: accepted evidence of a task moves the pointer by one, and however
\* many submissions of that task are in flight the pointer moves for the
\* task once.
C6_AcceptedAdvancesOnce ==
  [][\A r \in Reqs :
       (Accepted(r) /\ taskIndex' # taskIndex)
       => /\ taskIndex' = taskIndex + 1
          /\ req[r].task \notin advanced]_vars

\* C7: an answer judged not correct changes neither the pointer nor the
\* completion records nor the score, whatever kind of evidence it was.
C7_IncorrectChangesNothing ==
  [][\A r \in Reqs :
       /\ (Responds(r) /\ ~req'[r].correct)
          => UNCHANGED <<task_completions, user_badges, badge_points_awarded>>
       /\ (Resumes(r) /\ req[r].status = "ok" /\ ~req[r].correct)
          => UNCHANGED Progress]_vars

\* C8: a submission that failed (the request, or the handler's storage)
\* does not move the pointer.
C8_FailureKeepsPointer ==
  [][\A r \in Reqs :
       (Resumes(r) /\ req[r].status = "err") => taskIndex' = taskIndex]_vars

\* C9: in a session SCENARIO_COMPLETED is emitted once per scenario id:
\* for the scenarios in completedScenarioIds once, for the others never.
C9_ScenarioCompletedOnce ==
  \A s \in Scenarios :
    emitted[s] = IF s \in completedScenarioIds THEN 1 ELSE 0

\* the pointer ran to the end of a scenario a second time in the session:
\* onScenarioComplete returned at its guard, which leaves the scenario
\* active with the pointer at the end
C9_Witness ==
  /\ currentScenario # None
  /\ emitted[currentScenario] = 1
  /\ isScenarioActive
  /\ taskIndex >= Len(ClientTasks)

\* rows of badge b in user_badges and in badge_points_awarded
BadgeRowsOf(b) == {i \in DOMAIN user_badges : user_badges[i] = b}
PointRowsOf(b) ==
  {i \in DOMAIN badge_points_awarded : badge_points_awarded[i].badge = b}

\* C10: the user holds each badge at most once and is credited its points
\* at most once.
C10_BadgeOnce ==
  \A b \in Badges :
    Cardinality(BadgeRowsOf(b)) <= 1 /\ Cardinality(PointRowsOf(b)) <= 1

\* two handlers evaluate the badges of one scenario together: one has
\* inserted the badge, the other found none and stands before its INSERT
C10_Witness ==
  \E r1, r2 \in Reqs, b \in Badges :
    /\ r1 # r2
    /\ req[r2].pc \in {"sbInsUB", "srInsUB", "hfInsUB"}
    /\ b = (CASE req[r2].pc = "sbInsUB" -> ScenarioBadge(ScenarioOf(req[r2].task))
              [] req[r2].pc = "srInsUB" -> SpeedRunner
              [] OTHER -> HintFree)
    /\ HasBadge(user_badges, b)
    /\ b \in req[r1].unlocked

\* every task of scenario s has a completion row
AllCompleted(s) == TaskSet(s) \subseteq CompletedTasks(task_completions)
\* the completion row of task t is the latest row of its scenario: the
\* submission that recorded it completed the last remaining task
CompletedLast(t) ==
  /\ AllCompleted(ScenarioOf(t))
  /\ \A i, j \in DOMAIN task_completions :
       (task_completions[i].task = t
        /\ task_completions[j].task \in TaskSet(ScenarioOf(t)))
       => j <= i
\* request r has been answered as the new completion of its task
AnsweredNew(r) == Answered(r) /\ req[r].correct /\ ~req[r].already

\* C11: the scenario badge is held only when every task of the scenario is
\* completed, and it is held once the submission that completed the last
\* remaining task has been answered with success.
C11_ScenarioBadgeWhenComplete ==
  \A s \in Scenarios :
    ScenarioBadge(s) # None =>
      /\ HasBadge(user_badges, ScenarioBadge(s)) => AllCompleted(s)
      /\ \A r \in Reqs :
           (AnsweredNew(r) /\ req[r].task \in TaskSet(s)
            /\ CompletedLast(req[r].task))
           => HasBadge(user_badges, ScenarioBadge(s))

\* the submission that completed the last task of a scenario is answered
\* with the scenario badge among its unlocked badges
C11_Witness ==
  \E r \in Reqs :
    /\ AnsweredNew(r) /\ CompletedLast(req[r].task)
    /\ ScenarioBadge(ScenarioOf(req[r].task)) \in req[r].unlocked

\* this step ends request r with a 500 thrown inside the badge evaluation
EvaluationFails(r) ==
  /\ req[r].pc \in EvaluationPcs
  /\ req'[r].pc = "resp" /\ req'[r].status = "err"

\* C12: when the badge evaluation of a submission fails, the completion
\* the submission recorded stays recorded with its score, and the user's
\* total keeps that score.
C12_FailedEvaluationKeepsCompletion ==
  [][\A r \in Reqs :
       EvaluationFails(r)
       => /\ task_completions' = task_completions
          /\ ExistingCompletion(task_completions', req[r].task)
          /\ ExistingScore(task_completions', req[r].task) = req[r].score
          /\ DbTotal' = DbTotal]_vars

\* a submission was answered 500 from inside the badge evaluation and the
\* completion it recorded is in the table
C12_Witness ==
  \E r \in Reqs :
    /\ req[r].pc = "resp" /\ req[r].status = "err" /\ req[r].evalFailed
    /\ ExistingCompletion(task_completions, req[r].task)

\* request r passes the SELECT of its task's completion while the scenario
\* of the task is completed without its badge and no other handler runs
RetryFindsUnbadged(r) ==
  LET s == ScenarioOf(req[r].task) IN
  /\ At(r, "getExisting") /\ req'[r].pc # "getExisting"
  /\ req'[r].status # "err"
  /\ \A x \in Reqs \ {r} : Ended(x)
  /\ AllCompleted(s)
  /\ ScenarioBadge(s) # None /\ ~HasBadge(user_badges, ScenarioBadge(s))

\* C13: a submission retried when every task of the scenario is recorded
\* but the scenario badge was not awarded runs the badge evaluation again.
C13_RetryReevaluates ==
  [][\A r \in Reqs :
       RetryFindsUnbadged(r) => req'[r].pc \in EvaluationPcs]_vars

\* the completion rows of scenario s
ScenarioCompletions(s) ==
  SelectSeq(task_completions, LAMBDA c : c.task \in TaskSet(s))
\* every completion of scenario s carries a timeMs, and they sum to at most
\* the 5 minutes
WithinFiveMinutes(s) ==
  /\ TimedCompletions(task_completions, s) = ScenarioCompletions(s)
  /\ SumField(ScenarioCompletions(s), "time_ms") <= SPEED_RUNNER_THRESHOLD_MS

AwardsHintFree(r) ==
  /\ At(r, "net") /\ req'[r].pc = "resp"
  /\ ~HasBadge(user_badges, HintFree) /\ HasBadge(user_badges', HintFree)
\* the tasks of scenario s whose hint the user has fetched
FetchedHints(s) == unlockedHints \cap TaskSet(s)

\* C15: "Hint-Free Expert" is awarded on completing a scenario only when
\* the user has fetched no hint for a task of that scenario, free or paid:
\* every fetch is counted, and a counted fetch withholds the badge.
C15_HintFreeOnlyWithoutHints ==
  [][\A r \in Reqs :
       AwardsHintFree(r) => FetchedHints(ScenarioOf(req[r].task)) = {}]_vars

\* this step writes the answer of hint request h: the hint, or the refusal
\* 'Insufficient points'
HintAnswers(h) ==
  /\ hintReq[h].pc \in HintPcs \cup {"net"}
  /\ hintReq'[h].pc = "resp"
  /\ hintReq'[h].status \in {"ok", "insufficient"}

\* C16: a hint request is refused for insufficient points exactly when the
\* user's total is below the hint's cost and the user has not unlocked the
\* hint before; an unlocked hint is returned whatever the total.
C16_InsufficientUnlessUnlocked ==
  [][\A h \in Reqs :
       HintAnswers(h)
       => (hintReq'[h].status = "insufficient"
           <=> (/\ hintReq'[h].current < hintReq'[h].required
                /\ hintReq[h].task \notin unlockedHints))]_vars

\* the hints in unlockedHints that the client paid for
PaidHints == {t \in unlockedHints : ClientDef(t).hintCost > 0}
\* this step sets the points shown from the server's total
Synchronises ==
  /\ points' # points
  /\ UNCHANGED <<hintReq, unlockedHints>>

\* C17: the cost of a paid hint stays deducted: when the points shown are
\* next set from the server (a submission's newTotalScore or the score
\* synchronisation) they are below the user's awarded total.
C17_DeductionLasts ==
  [][(Synchronises /\ scenarioData # None /\ PaidHints # {})
       => points' < DbTotal']_vars

\* the answers of a task replaced by others: another command, another
\* argument, another interaction target
OtherAnswers(task) ==
  [task EXCEPT !.checkCommand = IF @ = None THEN None ELSE "pwd",
               !.checkArgs = IF @ = <<>> THEN <<>> ELSE <<HomePath>>,
               !.interactionTarget = IF @ = None THEN None ELSE "usb"]

\* C18: what the client has loaded of a task is the same for any two
\* definitions of the task that differ only in the expected answers.
C18_PayloadHidesAnswers ==
  \A t \in Tasks :
    scenarioData # None
    => ClientDef(t) = PublicTask(OtherAnswers(TaskDef(scenarioData, t)))

\* this step is the client taking the answer of the console route for the
\* command cmd with arguments args
Executes(cmd, args) ==
  /\ con.pc = "sent" /\ con'.pc = "idle"
  /\ con.cmd = cmd /\ con.args = args
\* this step submits task t as completed
Submits(t) ==
  \E r \in Reqs : req[r].pc = "idle" /\ req'[r].pc = "net" /\ req'[r].task = t
\* the current task is the command task cd /home/user/evidence
CdEvidenceTask ==
  /\ currentTask # None
  /\ ClientDef(currentTask).checkCommand = "cd"
  /\ ClientDef(currentTask).checkArgs = <<EvidencePath>>

\* C19: with the task cd /home/user/evidence current, `cd` without
\* arguments run in /home/user/evidence is accepted as completing the
\* task, and so is `cd /home/user/evidence/`.
C19_CdFallbackAndTrailingSlash ==
  [][CdEvidenceTask
     => /\ (Executes("cd", <<>>) /\ cwd = EvidencePath)
           => Submits(currentTask)
        /\ Executes("cd", <<EvidencePath \o <<"/">>>>)
           => Submits(currentTask)]_vars

\* C20: a submission of a flag task is judged correct exactly when the
\* submitted string is the task's expected flag value.
C20_FlagExactEquality ==
  [][\A r \in Reqs :
       (Responds(r)
        /\ TaskDef(scenariosData, req[r].task).checkType = "flag"
        /\ ~req'[r].already)
       => (req'[r].correct
           <=> req[r].answer
               = Answer(FALSE,
                        TaskDef(scenariosData, req[r].task).expectedValue,
                        <<>>))]_vars

\* this step is the device route answering the request in slot r, or
\* taking it one awaited call further, without a database error
DevStep(r, op, pc) ==
  /\ DevAt(r, op, pc) /\ dev'[r] # dev[r]
  /\ dev'[r].status # 500

\* C21: a mount request that finds its device mounted at another mount
\* point is answered 400 "already mounted" and changes neither the device
\* rows nor the tree; one that finds it mounted at the same mount point is
\* answered 200 with the "already mounted" message and changes nothing.
C21_AlreadyMounted ==
  [][\A r \in Reqs :
       (DevStep(r, "mount", "find")
        /\ MountTarget(dev[r]) # Null /\ MountTarget(dev[r]).mounted = 1)
       => /\ dev'[r].pc = "resp"
          /\ dev'[r].message = "Device already mounted"
          /\ dev'[r].status
             = (IF MountTarget(dev[r]).mount_point = dev[r].mountPoint
                THEN 200 ELSE 400)
          /\ user_devices' = user_devices /\ vfs' = vfs]_vars

C21_Witness ==
  \E r, x \in Reqs :
    /\ dev[r].op = "mount" /\ dev[r].status = 400
    /\ dev[x].op = "mount" /\ dev[x].status = 200
    /\ dev[x].message = "Device already mounted"

\* C22: an unmount request that finds no row at the mount point is
\* answered 404 and changes nothing; otherwise its UPDATE leaves no row
\* mounted at the mount point, leaves the other rows as they are and
\* leaves the tree unchanged, the files grafted there included.
C22_UnmountKeepsTree ==
  [][\A r \in Reqs :
       /\ (DevStep(r, "unmount", "find") /\ RowsAt(dev[r].mountPoint) = {})
          => /\ dev'[r].pc = "resp" /\ dev'[r].status = 404
             /\ user_devices' = user_devices /\ vfs' = vfs
       /\ DevStep(r, "unmount", "write")
          => /\ dev'[r].status = 200
             /\ Len(user_devices') = Len(user_devices)
             /\ \A i \in DOMAIN user_devices :
                  IF user_devices[i].mount_point = dev[r].mountPoint
                  THEN /\ user_devices'[i].mounted = 0
                       /\ user_devices'[i].mount_point = Null
                  ELSE user_devices'[i] = user_devices[i]
             /\ vfs' = vfs
             /\ \A n \in DOMAIN dev[r].record.device_data :
                  Append(Segments(dev[r].mountPoint), n) \in DOMAIN vfs'.tree]_vars

C22_Witness ==
  \E r, x \in Reqs :
    /\ dev[r].op = "unmount" /\ dev[r].status = 200
    /\ dev[x].op = "unmount" /\ dev[x].status = 404

\* C23: a step of an attach request for a device that already has its row
\* leaves the table as it is, and no device ever has two rows.
C23_AttachIdempotent ==
  [][/\ \A r \in Reqs :
          (dev[r].op = "attach" /\ dev'[r] # dev[r]
           /\ DeviceRows(dev[r].name) # {})
          => user_devices' = user_devices
     /\ \A name \in DeviceNames : Cardinality(DeviceRows(name)') <= 1]_vars

C23_Witness ==
  \E r, x \in Reqs :
    /\ r # x /\ dev[r].op = "attach" /\ dev[x].op = "attach"
    /\ dev[r].name = dev[x].name
    /\ dev[r].status = 200 /\ dev[x].status = 200
    /\ \E i \in DOMAIN user_devices :
         user_devices[i].device_name = dev[r].name /\ user_devices[i].mounted = 1

\* the requests that have been answered: console requests as <<"exec", r>>,
\* device requests as <<"dev", r>>
AnsweredRequests ==
  {<<"exec", r>> : r \in {x \in Reqs : exec[x].pc = "resp"}}
  \cup {<<"dev", r>> : r \in {x \in Reqs : dev[x].pc = "resp"}}
Quiescent ==
  \A r \in Reqs : exec[r].pc \in {"idle", "resp"} /\ dev[r].pc \in {"idle", "resp"}

\* one request applied alone to the tree, the working directory and the
\* device rows
Applied(st, id) ==
  IF id[1] = "exec"
  THEN LET parsed == parseCommand(exec[id[2]].line)
           result == executeCommand(parsed.cmd, parsed.args, st.tree, st.cwd)
       IN [st EXCEPT !.tree = result.vfs, !.cwd = result.newCwd]
  ELSE LET q == dev[id[2]]
           at == {i \in DOMAIN st.rows :
                    st.rows[i].device_name
                    = (IF q.op = "attach" THEN q.name ELSE DeviceNameOf(q.device))}
       IN IF q.op = "attach"
          THEN IF at # {} THEN st
               ELSE [st EXCEPT !.rows =
                       Append(@, [device_name |-> q.name, mounted |-> 0,
                                  mount_point |-> Null,
                                  device_data |-> q.content])]
          ELSE IF at = {} \/ \E i \in at : st.rows[i].mounted = 1 THEN st
          ELSE [st EXCEPT
                  !.tree = Graft(@, q.mountPoint,
                                 st.rows[CHOOSE i \in at : TRUE].device_data),
                  !.rows = [i \in DOMAIN @ |->
                              IF i \in at
                              THEN [@[i] EXCEPT !.mounted = 1,
                                                !.mount_point = q.mountPoint]
                              ELSE @[i]]]
RECURSIVE AppliedInOrder(_, _, _)
AppliedInOrder(st, order, i) ==
  IF i > Len(order) THEN st
  ELSE AppliedInOrder(Applied(st, order[i]), order, i + 1)
\* the orders of the answered requests
Orders ==
  {o \in [1..Cardinality(AnsweredRequests) -> AnsweredRequests] :
     \A i, j \in DOMAIN o : i # j => o[i] # o[j]}
Serial(order) ==
  AppliedInOrder([tree |-> InitialTree, cwd |-> HomePath, rows |-> <<>>],
                 order, 1)

\* C24: when every request has been answered, the persisted tree and
\* working directory are those of the answered requests applied one after
\* another in some order.
C24_RequestsSerialised ==
  Quiescent
  => \E order \in Orders :
       /\ Serial(order).tree = vfs.tree
       /\ Serial(order).cwd = vfs.cwd

\* ---------------------------------------------------------------- C25
\* the entries a token names, seen from a working directory
EntryAt(dir, token) == Segments(resolvePath(token, dir))
TokA == <<"a">>
TokAB == <<"a", "/", "b">>
TokC == <<"c">>
TokXY == <<"x", "/", "y">>
RanLine(line) ==
  /\ exec[1].pc = "resp" /\ exec[1].status = 200 /\ exec[1].line = line

\* C25: wherever the terminal stands, if a does not exist there, mkdir a/b
\* fails with "No such file or directory" and leaves the tree as it was;
\* after mkdir a, mkdir a/b succeeds and ls a lists exactly b.
C25_MkdirNeedsParent ==
  LET t == vfs.tree
      d == vfs.cwd
  IN EntryAt(d, TokA) \notin DOMAIN t =>
       LET early == executeCommand("mkdir", <<TokAB>>, t, d)
           one == executeCommand("mkdir", <<TokA>>, t, d)
           two == executeCommand("mkdir", <<TokAB>>, one.vfs, d)
           seen == executeCommand("ls", <<TokA>>, two.vfs, d)
       IN /\ early.error = "No such file or directory"
          /\ early.vfs = t /\ ~early.vfsModified
          /\ one.error = None /\ one.vfsModified
          /\ two.error = None /\ two.vfsModified
          /\ seen.error = None /\ seen.listing = {"b"}
\* mkdir a/b was refused for want of a, or ls a has listed b alone
C25_Witness ==
  /\ RanLine(<<"ls", " ", "a">>)
  /\ exec[1].result.error = None
  /\ exec[1].result.listing = {"b"}


\* ---------------------------------------------------------------- C26
Parent(p) == SubSeq(p, 1, Len(p) - 1)
\* C26: rm of an entry that exists takes that one name out of the children
\* of its parent and touches no entry outside it; the same rm once more
\* fails with "No such file or directory" and leaves the tree as it was.
C26_RmOneEntry ==
  LET t == vfs.tree
      d == vfs.cwd
  IN \A tok \in {TokA, TokAB} :
       LET p == EntryAt(d, tok) IN
       p \in DOMAIN t =>
         LET first == executeCommand("rm", <<tok>>, t, d)
             second == executeCommand("rm", <<tok>>, first.vfs, d)
         IN /\ first.error = None /\ first.vfsModified
            /\ p \notin DOMAIN first.vfs
            /\ DOMAIN first.vfs \subseteq DOMAIN t
            /\ ChildNames(first.vfs, Parent(p))
                 = ChildNames(t, Parent(p)) \ {p[Len(p)]}
            /\ \A q \in DOMAIN t :
                 ~Under(p, q) => q \in DOMAIN first.vfs /\ first.vfs[q] = t[q]
            /\ (\A q \in DOMAIN t : Under(p, q) => q = p)
                 => DOMAIN first.vfs = DOMAIN t \ {p}
            /\ second.error = "No such file or directory"
            /\ second.vfs = first.vfs /\ ~second.vfsModified
\* rm a has been answered without an error and a is gone from the tree
C26_Witness ==
  /\ RanLine(<<"rm", " ", "a">>)
  /\ exec[1].result.error = None /\ exec[1].result.vfsModified
  /\ EntryAt(exec[1].cwd, TokA) \notin DOMAIN vfs.tree

\* ---------------------------------------------------------------- C29
\* what hangs on the entry p, by the paths from p
Sub(tree, p) ==
  [rest \in {SubSeq(x, Len(p) + 1, Len(x)) :
               x \in {y \in DOMAIN tree : Under(p, y)}} |-> tree[p \o rest]]
Outside(tree, p) == {q \in DOMAIN tree : ~Under(p, q)}
SameOutside(old, new, p) ==
  /\ Outside(new, p) = Outside(old, p)
  /\ \A q \in Outside(old, p) : new[q] = old[q]
\* a directory made in the copy leaves the source as it was, and one made
\* in the source leaves the copy as it was
Independent(tree, d, src, copy, inSrc, inCopy) ==
  LET a == executeCommand("mkdir", <<inCopy>>, tree, d)
      b == executeCommand("mkdir", <<inSrc>>, tree, d)
  IN /\ a.error = None /\ Sub(a.vfs, copy) # Sub(tree, copy)
     /\ Sub(a.vfs, src) = Sub(tree, src)
     /\ b.error = None /\ Sub(b.vfs, src) # Sub(tree, src)
     /\ Sub(b.vfs, copy) = Sub(tree, copy)
\* C29: cp -r a c with c a directory stores the copy of a as c/a; cp -r a
\* x/y with no x makes the directory x and stores the copy as x/y; the
\* copy equals the source, nothing else changes, and source and copy
\* change apart afterwards.
C29_CpNestsAndClones ==
  LET t == vfs.tree
      d == vfs.cwd
      src == EntryAt(d, TokA)
      c == EntryAt(d, TokC)
      x == EntryAt(d, <<"x">>)
      xy == EntryAt(d, TokXY)
  IN (src \in DOMAIN t /\ t[src].type = "dir") =>
     /\ (c \in DOMAIN t /\ t[c].type = "dir") =>
          LET r == executeCommand("cp", <<(<<"-r">>), TokA, TokC>>, t, d)
              copy == c \o <<"a">>
          IN /\ r.error = None /\ r.vfsModified
             /\ Sub(r.vfs, copy) = Sub(t, src)
             /\ SameOutside(t, r.vfs, copy)
             /\ (EntryAt(d, <<"a", "/", "n">>) \notin DOMAIN t) =>
                  Independent(r.vfs, d, src, copy, <<"a", "/", "n">>,
                              <<"c", "/", "a", "/", "n">>)
     /\ x \notin DOMAIN t =>
          LET r == executeCommand("cp", <<(<<"-r">>), TokA, TokXY>>, t, d)
          IN /\ r.error = None /\ r.vfsModified
             /\ r.vfs[x] = DirNode
             /\ Sub(r.vfs, xy) = Sub(t, src)
             /\ DOMAIN r.vfs = DOMAIN t \cup {x} \cup
                                 {xy \o rest : rest \in DOMAIN Sub(t, src)}
             /\ \A q \in DOMAIN t : r.vfs[q] = t[q]
             /\ (EntryAt(d, <<"a", "/", "n">>) \notin DOMAIN t) =>
                  Independent(r.vfs, d, src, xy, <<"a", "/", "n">>,
                              <<"x", "/", "y", "/", "n">>)
\* both copies have been made: a under the directory c, and a as x/y
C29_Witness ==
  /\ RanLine(<<"cp", " ", "-r", " ", "a", " ", "x", "/", "y">>)
  /\ exec[1].result.error = None
  /\ EntryAt(exec[1].cwd, <<"c", "/", "a">>) \in DOMAIN vfs.tree
  /\ EntryAt(exec[1].cwd, TokXY) \in DOMAIN vfs.tree

\* ---------------------------------------------------------------- C27
EchoHi == <<"echo", " ", "hi", " ", ">", " ", "out.txt">>
EchoBye == <<"echo", " ", "bye", " ", ">", ">", " ", "out.txt">>
CatOut == <<"cat", " ", "out.txt">>
OutAt(dir) == EntryAt(dir, <<"out.txt">>)
\* the directory of out.txt exists in the tree the redirection writes to
HasDir(dir) ==
  /\ Segments(dir) \in DOMAIN localRoot
  /\ localRoot[Segments(dir)].type = "dir"
\* C27: with the directory of out.txt in place, echo hi > out.txt leaves a
\* file out.txt with "hi\n" and echo bye >> out.txt leaves it with
\* "hi\nbye\n" (or "bye\n" when it was not there); and cat out.txt answers
\* with the content the redirections have left in out.txt.
C27_RedirectedFileIsRead ==
  /\ (term.pc = "idle" /\ term.line = EchoHi /\ HasDir(cwd)) =>
       /\ OutAt(cwd) \in DOMAIN localRoot
       /\ localRoot[OutAt(cwd)] = FileNode("hi\n")
  /\ (term.pc = "idle" /\ term.line = EchoBye /\ HasDir(cwd)) =>
       /\ OutAt(cwd) \in DOMAIN localRoot
       /\ localRoot[OutAt(cwd)] \in {FileNode("hi\nbye\n"), FileNode("bye\n")}
  /\ (RanLine(CatOut) /\ OutAt(exec[1].cwd) \in DOMAIN localRoot) =>
       /\ exec[1].result.error = None
       /\ exec[1].result.output = localRoot[OutAt(exec[1].cwd)].content

\* ---------------------------------------------------------------- C28
\* the parent directory of the destination is missing from the tree the
\* redirection writes to
NoParent(redir, dir) ==
  redir.on /\ ensureDirAndLeaf(localRoot, resolvePath(redir.path, dir)) = Null
\* a local command is run with its output redirected
RedirectsLocal(line) ==
  /\ LineTyped(line)
  /\ ~(Parse(line).cmd \in vfsCommands /\ currentScenario # None)
  /\ Parse(line).cmd \in DOMAIN registry.commands
\* the output of a command of the server is redirected
RedirectsAnswer ==
  /\ TermResult
  /\ exec[term.slot].status = 200
  /\ exec[term.slot].result.error = None
\* C28: a redirection whose destination has no parent directory writes
\* "Error: destination directory does not exist." to the terminal and
\* changes neither the tree of the terminal nor that of the server.
C28_RedirectionNeedsParent ==
  [][/\ \A line \in TermLines :
          (RedirectsLocal(line) /\ NoParent(Parse(line).redir, cwd)) =>
            /\ term'.message = NoDestination
            /\ localRoot' = localRoot /\ vfs' = vfs
     /\ (RedirectsAnswer
         /\ NoParent(Parse(term.line).redir, exec[term.slot].result.newCwd)) =>
            /\ term'.message = NoDestination
            /\ localRoot' = localRoot /\ vfs' = vfs]_vars
\* echo hi > d/out.txt has been refused although the server has made d,
\* and files have been written where the directory was there
C28_Witness ==
  /\ term.pc = "idle"
  /\ term.line = <<"echo", " ", "hi", " ", ">", " ", "d", "/", "out.txt">>
  /\ term.message = NoDestination
  /\ EntryAt(vfs.cwd, <<"d">>) \in DOMAIN vfs.tree
  /\ \E p \in DOMAIN localRoot : localRoot[p].type = "file"

\* ---------------------------------------------------------------- C30
\* C30: a command is executed with the command name and the arguments that
\* come before the first > or >> of its line.
C30_ArgumentsCutAtRedirection ==
  \A r \in Reqs :
    exec[r].result # Null =>
      /\ exec[r].cmd = Parse(exec[r].line).cmd
      /\ exec[r].args = Parse(exec[r].line).args

\* ---------------------------------------------------------------- C36
MountedAt(mountPoint) ==
  {i \in DOMAIN user_devices :
     /\ user_devices[i].mounted = 1
     /\ user_devices[i].mount_point = mountPoint}
\* C36: at most one device is marked mounted at a mount point, and an
\* unmount that succeeds changes the mount state of exactly one device.
C36_OneDevicePerMountPoint ==
  /\ [](\A mountPoint \in MountPoints : Cardinality(MountedAt(mountPoint)) <= 1)
  /\ [][\A r \in Reqs :
          (DevAt(r, "unmount", "write") /\ UnmountWrite(r)) =>
            Cardinality({i \in DOMAIN user_devices :
                           user_devices'[i] # user_devices[i]}) = 1]_vars

\* ---------------------------------------------------------------- C31
\* C31: the persisted tree is well formed: every entry is a directory or a
\* file, and every entry but the root hangs on an entry that is a
\* directory, so that no file has children.
C31_WellFormedTree ==
  \A p \in DOMAIN vfs.tree :
    /\ vfs.tree[p].type \in {"dir", "file"}
    /\ p # <<>> =>
         /\ Parent(p) \in DOMAIN vfs.tree
         /\ vfs.tree[Parent(p)].type = "dir"

\* ---------------------------------------------------------------- C38
\* C38: the persisted working directory names a directory of the
\* persisted tree.
C38_CwdExists ==
  /\ Segments(vfs.cwd) \in DOMAIN vfs.tree
  /\ vfs.tree[Segments(vfs.cwd)].type = "dir"

\* ---------------------------------------------------------------- C39
\* the console route takes request r one call further
ExecStep(r) == exec'[r] # exec[r] /\ exec[r].pc # "idle" /\ exec[r].pc # "resp"
\* C39: a command whose result is an error is not marked as having
\* changed the tree or the working directory, and no call of its request
\* changes the persisted tree or working directory.
C39_ErrorChangesNothing ==
  [][\A r \in Reqs :
       (ExecStep(r) /\ exec'[r].result # Null
        /\ exec'[r].result.error # None)
       => /\ ~exec'[r].result.vfsModified
          /\ exec'[r].result.newCwd = exec'[r].cwd
          /\ exec'[r].result.vfs = vfs.tree
          /\ exec'[r].pc \in {"log", "resp"}
          /\ vfs' = vfs]_vars
\* a command has been answered with an error in a tree that commands
\* before it have changed
C39_Witness ==
  /\ exec[1].pc = "resp" /\ exec[1].status = 200
  /\ exec[1].result.error # None
  /\ vfs.tree # InitialTree

\* ---------------------------------------------------------------- C37
\* C37: the task pointer of the client stays between 0 and the number of
\* tasks of the scenario the client has initialised.
C37_TaskIndexInRange == 0 <= taskIndex /\ taskIndex <= Len(ClientTasks)

\* C40: while a scenario is open, every built-in command the scenario does
\* not declare itself is registered with its built-in handler, and the
\* custom commands registered are exactly those the scenario declares.
C40_RegistryFollowsScenario ==
  currentScenario # None =>
    LET declared == DOMAIN CustomCommands(scenarioData, currentScenario) IN
    /\ \A n \in BuiltinNames \ declared :
         /\ n \in DOMAIN registry.commands
         /\ registry.commands[n] = BuiltinHandler
    /\ {n \in DOMAIN registry.commands : registry.commands[n].custom}
         = declared

\* C32: once a version of the scenarios is saved, the list the client
\* loads is the saved one, and a command the console route runs answers
\* what the saved definitions of the scenario say.
C32_SavedDefinitionsServed ==
  [][/\ (scenarioData' # scenarioData /\ scenarioData' # None)
          => scenarioData' = scenariosData
     /\ \A r \in Reqs :
          (exec[r].pc = "get" /\ exec'[r].result # Null) =>
            LET parsed == parseCommand(exec[r].line) IN
            parsed.cmd \in DOMAIN CustomCommands(scenariosData, VfsScenario)
              => /\ exec'[r].result.error = None
                 /\ exec'[r].result.output
                      = CustomCommands(scenariosData, VfsScenario)[parsed.cmd]
    ]_vars

\* C33: the rows of every leaderboard answer were computed from the
\* database less than CACHE_TTL before the request was made, and rows from
\* the cache no later than the request; a request made when CACHE_TTL or
\* more has passed since the cached rows were computed goes to the
\* database.
C33_CacheWithinTtl ==
  /\ [](\A r \in Reqs :
          (lb[r].pc = "done" /\ lb[r].status = 200) =>
            /\ lb[r].now - lb[r].leaderboard.computedAt < CACHE_TTL
            /\ lb[r].cached => lb[r].leaderboard.computedAt <= lb[r].now)
  /\ [][\A r \in Reqs :
          (/\ lb[r].pc \in {"idle", "done"} /\ lb'[r] # lb[r]
           /\ cache.data # Null
           /\ now - cache.data.computedAt >= CACHE_TTL)
            => lb'[r].pc = "query"]_vars
\* an answer from the cache, made after the rows were computed, that does
\* not show a score the database holds by now
C33_Witness ==
  \E r \in Reqs :
    /\ lb[r].pc = "done" /\ lb[r].cached
    /\ lb[r].now > lb[r].leaderboard.computedAt
    /\ lb[r].leaderboard.totalScore # DbTotal

\* C34: at any time at most one initialisation is in progress, so the
\* callers of initSession during it hold one promise and one request for
\* the current user is out; a call on an initialised session makes no
\* request.
InProgress == {p \in Promises : session.promise[p].pc \in {"getMe", "served"}}
C34_OneInitialisation ==
  /\ [](Cardinality(InProgress) <= 1)
  /\ [][(session.initialized /\ session'.calls # session.calls)
          => session'.promise = session.promise]_vars

\* C35: the session becomes authenticated only by a login or an
\* initialisation that began after the last logout completed.
C35_LogoutStays ==
  [][(~session.isAuthenticated /\ session'.isAuthenticated) =>
       /\ \A p \in Promises :
            (session.promise[p].pc = "served"
             /\ session'.promise[p].pc = "settled")
              => ~session.promise[p].stale
       /\ (session.login.pc = "getMe" /\ session'.login.pc = "idle")
            => ~session.login.stale]_vars

====
